---- MODULE Spec2Model ----
(***************************************************************************)
(* A model of the IFC parsing-and-resolution engine of ifc-browser-parser. *)
(*                                                                         *)
(* Text.  A JavaScript string is modelled as a sequence of atoms.  An atom *)
(* is either one punctuation character ("(", ")", ",", "#", "=", ";", "'", *)
(* "$", " ", ".", "-", "\"", "\\") or one maximal run of word characters   *)
(* (a type name, a name, a digit run).  Every character-level operation    *)
(* of the code (regular expressions with \d+ and \w+, startsWith, slice,   *)
(* trim, split, the depth scanners) acts on atom boundaries only, so it is *)
(* translated atom by atom.                                                *)
(*                                                                         *)
(* Numbers.  A JavaScript number is modelled as an exact rational          *)
(* [nan, n, d] (d > 0, lowest terms) or NaN.  The code's tolerances are    *)
(* 1e-4, twelve orders of magnitude above double rounding.                 *)
(***************************************************************************)
EXTENDS Integers, Sequences, FiniteSets, TLC

VARIABLES
    xContent,   \* IFCElementExtractor: the content of the file, as lines
    xLines,     \* IFCElementExtractor: the lines of the file still to be read
    xState,     \* IFCElementExtractor.state (inDataSection, inHeader)
    xEntities,  \* IFCElementExtractor.entities, in Map insertion order
    xRels,      \* IFCElementExtractor.relationships, in Map insertion order
    xPos,       \* index of the next entity processMaterialRelationships visits
    xPc,        \* "read" | "resolve" | "done" | "threw", "idle" when not in use
    pContent,   \* the text X whose parse is observed, as lines
    pPrior,     \* the text A given to call 2, once chosen
    pCall,      \* parse calls begun so far: 1 on a fresh IFCParser, 2 and 3 on
                \* a second IFCParser
    pLines,     \* IFCParser.parse: the lines still to be visited
    pEntities,  \* IFCParser.state.entities, in Map insertion order
    pWalls,     \* IFCParser.state.walls
    pErrors,    \* IFCParser.errors
    pRels,      \* the relationships Map of processMaterialRelationships
    pPos,       \* index of the next entity processMaterialRelationships visits
    pPc,        \* "ready" | "lines" | "resolve" | "returned" | "threw" | "idle"
    pResult,    \* what the last finished parse call gave its caller
    pFresh,     \* what call 1 gave its caller
    rContent,   \* IFCParser (ParseResult variant): the text given to parse
    rLines,     \* the lines still to be visited
    rState,     \* IFCParser.state
    rErrors,    \* IFCParser.errors
    rPos,       \* index of the next entity processRelationships visits
    rPc,        \* "ready" | "lines" | "materials" | "aggregates" | "returned" |
                \* "threw", "idle" when not in use
    rResult,    \* the ParseResult the caller holds
    rGeometry,  \* what the last getEntitiesWithGeometry call returned
    rWallCalls, \* the getWalls calls the caller has made after parse
    mRaw,       \* a materials list as the first passes of a branch leave it
    mLayers,    \* the list after the correction step of the layer-set branch
    mConstituents, \* the list after that of the constituent-set branch
    mDone,      \* the correction steps applied to mRaw so far
    tInput,     \* Tokenizer.input, as characters
    tState,     \* Tokenizer: position, line, column, errors
    tTokens,    \* the local tokens of Tokenizer.tokenize
    tPc,        \* "tokenize" | "done", "idle" when not in use
    wRequests,  \* IfcParserWorker: the inputs of the parse calls made so far
    wListeners, \* the 'message' listeners of this.worker, in the order added
    wInbox,     \* messages posted to the worker and not yet handled
    wRunning,   \* requests whose handler awaits IfcParser.parseAsync
    wOutbox,    \* responses posted by the worker and not yet delivered
    wSettled,   \* how the promise of each parse call has settled
    wPc         \* "open", "idle" when not in use

xvars == <<xContent, xLines, xState, xEntities, xRels, xPos, xPc>>

pvars == <<pContent, pPrior, pCall, pLines, pEntities, pWalls, pErrors, pRels, pPos, pPc,
           pResult, pFresh>>

rvars == <<rContent, rLines, rState, rErrors, rPos, rPc, rResult, rGeometry, rWallCalls>>

mvars == <<mRaw, mLayers, mConstituents, mDone>>

tvars == <<tInput, tState, tTokens, tPc>>

wvars == <<wRequests, wListeners, wInbox, wRunning, wOutbox, wSettled, wPc>>

vars == <<xvars, pvars, rvars, mvars, tvars, wvars>>

----------------------------------------------------------------------------
(* Generic sequence helpers *)

Last(s) == s[Len(s)]

Front(s) == SubSeq(s, 1, Len(s) - 1)

RECURSIVE Flatten(_)
Flatten(ss) == IF ss = <<>> THEN <<>> ELSE Head(ss) \o Flatten(Tail(ss))

Min2(a, b) == IF a <= b THEN a ELSE b

----------------------------------------------------------------------------
(* Strings as atom sequences *)

\* The value JavaScript yields for a missing array slot or Map entry, where
\* a string is expected.
Undefined == <<"<undefined>">>

RECURSIVE TrimLeft(_)
TrimLeft(s) == IF s # <<>> /\ Head(s) = " " THEN TrimLeft(Tail(s)) ELSE s

RECURSIVE TrimRight(_)
TrimRight(s) == IF s # <<>> /\ Last(s) = " " THEN TrimRight(Front(s)) ELSE s

\* String.prototype.trim
Trim(s) == TrimRight(TrimLeft(s))

\* s.startsWith(c) and s.endsWith(c) for a one-character c
StartsWith(s, c) == s # <<>> /\ Head(s) = c

EndsWith(s, c) == s # <<>> /\ Last(s) = c

\* s.slice(1, -1)
Slice1(s) == IF Len(s) >= 2 THEN SubSeq(s, 2, Len(s) - 1) ELSE <<>>

\* JavaScript truthiness of a string-or-undefined value
Truthy(s) == s # <<>> /\ s # Undefined

\* a[i] of a JavaScript array (0-based), undefined outside its bounds
At(a, i) == IF i >= 0 /\ i < Len(a) THEN a[i + 1] ELSE Undefined

----------------------------------------------------------------------------
(* Digit runs and numbers *)

LowDigitRuns == <<"1", "2", "3", "4", "5", "6", "7", "8", "9", "10", "11", "12",
                  "13", "14", "15", "16", "17", "18", "19", "20", "21", "22",
                  "23", "24", "25", "26", "27", "28", "29", "30", "31", "32",
                  "33", "34", "35", "36", "37", "38", "39", "40">>

\* The digit runs the model's files use, with their values.
DigitValue(a) ==
    CASE a = "0" -> 0
      [] a = "000" -> 0
      [] a = "50" -> 50
      [] a = "100" -> 100
      [] a = "200" -> 200
      [] a = "300" -> 300
      [] \E i \in 1..Len(LowDigitRuns) : LowDigitRuns[i] = a ->
            CHOOSE i \in 1..Len(LowDigitRuns) : LowDigitRuns[i] = a
      [] OTHER -> -1

IsDigits(a) == DigitValue(a) >= 0

\* Number.prototype.toString() of a small non-negative integer
DigitRun(n) ==
    CASE n = 0 -> "0"
      [] n \in 1..Len(LowDigitRuns) -> LowDigitRuns[n]
      [] n = 50 -> "50"
      [] n = 100 -> "100"
      [] n = 200 -> "200"
      [] n = 300 -> "300"
      [] OTHER -> "<big>"

Punct == {"(", ")", ",", "#", "=", ";", "'", "$", " ", ".", "-", "\"", "\\", "*"}

\* \w+ : a maximal run of word characters
IsWord(a) == a \notin Punct /\ a # "<undefined>"

Abs(x) == IF x < 0 THEN -x ELSE x

RECURSIVE GCD(_, _)
GCD(a, b) == IF b = 0 THEN a ELSE GCD(b, a % b)

NaN == [nan |-> TRUE, n |-> 0, d |-> 1]

Rat(n, d) ==
    LET g == GCD(Abs(n), Abs(d))
        s == IF d < 0 THEN -1 ELSE 1
    IN  [nan |-> FALSE, n |-> s * (n \div g), d |-> s * (d \div g)]

Num(k) == Rat(k, 1)

IsNaN(x) == x.nan

Add(x, y) == IF x.nan \/ y.nan THEN NaN ELSE Rat(x.n * y.d + y.n * x.d, x.d * y.d)

Sub(x, y) == IF x.nan \/ y.nan THEN NaN ELSE Rat(x.n * y.d - y.n * x.d, x.d * y.d)

Mul(x, y) == IF x.nan \/ y.nan THEN NaN ELSE Rat(x.n * y.n, x.d * y.d)

\* x / y; 0/0 is NaN.  A division of a non-zero number by zero (Infinity)
\* does not occur: every division of the code is guarded by divisor > 0.
Div(x, y) == IF x.nan \/ y.nan \/ y.n = 0 THEN NaN ELSE Rat(x.n * y.d, x.d * y.n)

\* Comparisons: every comparison with NaN is false.
Lt(x, y) == ~x.nan /\ ~y.nan /\ x.n * y.d < y.n * x.d

Gt(x, y) == Lt(y, x)

Le(x, y) == ~x.nan /\ ~y.nan /\ x.n * y.d <= y.n * x.d

NumAbs(x) == IF x.nan THEN NaN ELSE Rat(Abs(x.n), x.d)

\* parseFloat: skip leading blanks, an optional sign, then a digit run;
\* anything else is NaN.  Text after the digit run is ignored (the files of
\* the model write no fractional digits other than zeros).
ParseFloat(str) ==
    LET s == TrimLeft(str)
        neg == StartsWith(s, "-")
        u == IF neg THEN Tail(s) ELSE s
    IN  IF s = Undefined \/ u = <<>> \/ ~IsDigits(Head(u)) THEN NaN
        ELSE IF neg THEN Num(-DigitValue(Head(u))) ELSE Num(DigitValue(Head(u)))

----------------------------------------------------------------------------
(* IFCElementExtractor: reading the file *)

\* Map.get on a Map kept as a sequence of records with an id field
NoEnt == [id |-> Undefined, type |-> "<undefined>", attributes |-> <<>>, name |-> <<>>]

HasKey(m, key) == \E i \in 1..Len(m) : m[i].id = key

KeyIndex(m, key) == CHOOSE i \in 1..Len(m) : m[i].id = key

Get(m, key) == IF HasKey(m, key) THEN m[KeyIndex(m, key)] ELSE NoEnt

\* A store in which the first record of an id stays
MapSetFirst(m, rec) == IF HasKey(m, rec.id) THEN m ELSE Append(m, rec)

\* Map.set: a present key keeps its place in the iteration order
MapSet(m, rec) ==
    IF HasKey(m, rec.id) THEN [m EXCEPT ![KeyIndex(m, rec.id)] = rec]
    ELSE Append(m, rec)

\* IFCElementExtractor.stripHashFromId; the caller checks XThrows first
XStripHash(id) == IF StartsWith(id, "#") THEN Tail(id) ELSE id

\* id.startsWith throws a TypeError when id is undefined
XThrows(id) == id = Undefined

\* IFCElementExtractor.parseList: the scan from position i with the loop's
\* locals depth, currentItem and result
RECURSIVE XParseListFrom(_, _, _, _, _)
XParseListFrom(list, i, depth, cur, res) ==
    IF i > Len(list)
    THEN IF cur # <<>> THEN Append(res, Trim(cur)) ELSE res
    ELSE LET c == list[i] IN
         CASE c = "(" ->
                IF depth + 1 = 1 /\ cur = <<>>
                THEN XParseListFrom(list, i + 1, depth + 1, cur, res)
                ELSE XParseListFrom(list, i + 1, depth + 1, Append(cur, c), res)
           [] c = ")" ->
                IF depth - 1 = 0 /\ cur # <<>>
                THEN XParseListFrom(list, i + 1, depth - 1, <<>>, Append(res, Trim(cur)))
                ELSE XParseListFrom(list, i + 1, depth - 1, Append(cur, c), res)
           [] c = "," /\ depth = 0 ->
                IF cur # <<>>
                THEN XParseListFrom(list, i + 1, depth, <<>>, Append(res, Trim(cur)))
                ELSE XParseListFrom(list, i + 1, depth, cur, res)
           [] OTHER -> XParseListFrom(list, i + 1, depth, Append(cur, c), res)

XParseList(list) ==
    IF ~Truthy(list) THEN <<>> ELSE XParseListFrom(list, 1, 0, <<>>, <<>>)

\* The position of the type name in a line "#<digits>=<blanks><type>(...",
\* or 0 when the line does not start so.
XTypePos(line) ==
    IF Len(line) >= 3 /\ line[1] = "#" /\ IsDigits(line[2]) /\ line[3] = "="
    THEN LET rest == SubSeq(line, 4, Len(line))
             k == 3 + (Len(rest) - Len(TrimLeft(rest))) + 1
         IN  IF k + 1 <= Len(line) /\ IsWord(line[k]) /\ line[k + 1] = "(" THEN k ELSE 0
    ELSE 0

\* The end of the attribute text for /\((.*)\);?$/ : the greedy group stops
\* before a closing parenthesis that ends the line, alone or before one ";"
XAttrEnd(line) ==
    IF EndsWith(line, ")") THEN Len(line) - 1
    ELSE IF Len(line) >= 2 /\ Last(line) = ";" /\ line[Len(line) - 1] = ")"
         THEN Len(line) - 2 ELSE -1

XNoParse == [ok |-> FALSE, id |-> <<>>, type |-> "", attributes |-> <<>>]

\* IFCElementExtractor.parseLine
XParseLine(line) ==
    LET k == XTypePos(line)
        e == XAttrEnd(line)
    IN  IF k = 0 \/ e < k + 1 THEN XNoParse
        ELSE [ok |-> TRUE, id |-> <<line[2]>>, type |-> line[k],
              attributes |-> XParseList(SubSeq(line, k + 2, e))]

\* The attribute clean-up of parseIFCFile
XCleanAttr(attr) ==
    IF StartsWith(attr, "'") /\ EndsWith(attr, "'") THEN Slice1(attr)
    ELSE IF attr = <<"$">> THEN <<>> ELSE attr

XEntityOf(parsed) ==
    LET clean == [i \in 1..Len(parsed.attributes) |-> XCleanAttr(parsed.attributes[i])]
        a1 == At(clean, 1)
    IN  [id |-> parsed.id, type |-> parsed.type, attributes |-> clean,
         name |-> IF Truthy(a1) /\ a1 # <<"$">> THEN a1 ELSE <<>>]

\* A line loop that parses every line that is no marker, whatever the
\* section
XReadOneAnywhere(st, ents, line) ==
    IF Trim(line) \in {<<>>, <<"ISO", "-", "10303", "-", "21", ";">>, <<"HEADER", ";">>,
                       <<"ENDSEC", ";">>, <<"DATA", ";">>}
    THEN [state |-> [st EXCEPT !.currentLine = @ + 1], entities |-> ents]
    ELSE [state |-> [st EXCEPT !.currentLine = @ + 1],
          entities |-> IF XParseLine(Trim(line)).ok
                       THEN MapSet(ents, XEntityOf(XParseLine(Trim(line)))) ELSE ents]

\* One iteration of the line loop of parseIFCFile: the new section state
\* and entity Map.
XReadOne(st, ents, line) ==
    LET t == Trim(line)
        st1 == [st EXCEPT !.currentLine = @ + 1]
    IN  CASE t = <<>> -> [state |-> st1, entities |-> ents]
          [] t = <<"ISO", "-", "10303", "-", "21", ";">> ->
                [state |-> [st1 EXCEPT !.inHeader = TRUE], entities |-> ents]
          [] t = <<"HEADER", ";">> ->
                [state |-> [st1 EXCEPT !.inHeader = TRUE], entities |-> ents]
          [] t = <<"ENDSEC", ";">> ->
                [state |-> [st1 EXCEPT !.inHeader = FALSE, !.inDataSection = FALSE],
                 entities |-> ents]
          [] t = <<"DATA", ";">> ->
                [state |-> [st1 EXCEPT !.inDataSection = TRUE], entities |-> ents]
          [] OTHER ->
                IF ~st1.inDataSection THEN [state |-> st1, entities |-> ents]
                ELSE LET parsed == XParseLine(t) IN
                     [state |-> st1,
                      entities |-> IF parsed.ok THEN MapSet(ents, XEntityOf(parsed))
                                   ELSE ents]

----------------------------------------------------------------------------
(* IFCElementExtractor: volume resolution *)

Str(a) == <<a>>

UnknownMaterial == <<"Unknown", " ", "Material">>

\* IFCElementExtractor.removeQuotes
RemoveQuotes(s) == IF StartsWith(s, "'") /\ EndsWith(s, "'") THEN Slice1(s) ELSE s

\* s.replace(/^'|'$/g, ''): undefined stays undefined (optional chaining)
StripQuoteEnds(s) ==
    IF s = Undefined THEN Undefined
    ELSE LET a == IF StartsWith(s, "'") THEN Tail(s) ELSE s
         IN  IF EndsWith(a, "'") THEN Front(a) ELSE a

\* x || y on strings
OrElse(x, y) == IF Truthy(x) THEN x ELSE y

\* s.split(',')
RECURSIVE SplitComma(_, _)
SplitComma(s, cur) ==
    IF s = <<>> THEN <<cur>>
    ELSE IF Head(s) = "," THEN <<cur>> \o SplitComma(Tail(s), <<>>)
    ELSE SplitComma(Tail(s), Append(cur, Head(s)))

\* The decimal digit strings of a and b, as numbers: does a contain b?
RECURSIVE DigitsInclude(_, _)
DigitsInclude(a, b) ==
    LET m == IF b < 10 THEN 10 ELSE IF b < 100 THEN 100 ELSE 1000
    IN  IF a < b THEN FALSE
        ELSE IF a % m = b THEN TRUE
        ELSE IF a < 10 THEN FALSE ELSE DigitsInclude(a \div 10, b)

\* String.prototype.includes(id) for an id that is one digit run: the run
\* lies inside one word atom of s
IncludesId(s, id) ==
    \E i \in 1..Len(s) :
        \/ s[i] = id[1]
        \/ IsDigits(s[i]) /\ IsDigits(id[1]) /\ DigitValue(id[1]) > 0
             /\ DigitsInclude(DigitValue(s[i]), DigitValue(id[1]))

\* toLowerCase of the names the model's files use
LowerAtom(a) ==
    CASE a = "BaseQuantities" -> "basequantities"
      [] a = "Qto_WallBaseQuantities" -> "qto_wallbasequantities"
      [] a = "NetVolume" -> "netvolume"
      [] a = "GrossVolume" -> "grossvolume"
      [] a = "Volume" -> "volume"
      [] OTHER -> a

\* `Qto_${elementType}BaseQuantities`.toLowerCase() with
\* elementType = type.replace('IFC', '')
QtoBaseLower(type) ==
    CASE type = "IFCWALL" -> "qto_wallbasequantities"
      [] type = "IFCSLAB" -> "qto_slabbasequantities"
      [] OTHER -> "qto_<type>basequantities"

\* name.includes('Quantity') || name.includes('BaseQuantities')
IncludesQuantity(s) ==
    \E i \in 1..Len(s) : s[i] \in {"BaseQuantities", "Qto_WallBaseQuantities", "Quantity",
                                    "Quantities"}

\* name.toLowerCase().includes('volume')
IncludesVolume(s) ==
    \E i \in 1..Len(s) : LowerAtom(s[i]) \in {"volume", "netvolume", "grossvolume"}

\* The first quantity of the list that is an IFCQUANTITYVOLUME named
\* NetVolume or GrossVolume decides: its attribute 3, else null
RECURSIVE XFirstVolumeQuantity(_, _)
XFirstVolumeQuantity(ents, refs) ==
    IF refs = <<>> THEN Undefined
    ELSE LET quantity == Get(ents, XStripHash(Head(refs)))
             name == RemoveQuotes(OrElse(At(quantity.attributes, 0), <<>>))
         IN  IF quantity # NoEnt /\ quantity.type = "IFCQUANTITYVOLUME"
                /\ name \in {Str("NetVolume"), Str("GrossVolume")}
             THEN At(quantity.attributes, 3)
             ELSE XFirstVolumeQuantity(ents, Tail(refs))

\* IFCElementExtractor.checkQuantitySet
XCheckQuantitySet(ents, element, propertySet) ==
    IF propertySet.type # "IFCELEMENTQUANTITY" THEN Undefined
    ELSE LET setName == RemoveQuotes(OrElse(At(propertySet.attributes, 2), <<>>))
             lower == [i \in 1..Len(setName) |-> LowerAtom(setName[i])]
         IN  IF lower \notin {Str(QtoBaseLower(element.type)), Str("basequantities")}
             THEN Undefined
             ELSE XFirstVolumeQuantity(ents,
                      XParseList(OrElse(At(propertySet.attributes, 5), <<>>)))

RECURSIVE XFirstVolumeProperty(_, _)
XFirstVolumeProperty(ents, refs) ==
    IF refs = <<>> THEN Undefined
    ELSE LET property == Get(ents, XStripHash(Head(refs)))
             name == RemoveQuotes(OrElse(At(property.attributes, 0), <<>>))
         IN  IF property # NoEnt /\ property.type = "IFCPROPERTYSINGLEVALUE"
                /\ IncludesVolume(name)
             THEN At(property.attributes, 2)
             ELSE XFirstVolumeProperty(ents, Tail(refs))

\* IFCElementExtractor.checkPropertySet
XCheckPropertySet(ents, propertySet) ==
    IF propertySet.type # "IFCPROPERTYSET" THEN Undefined
    ELSE LET psetName == RemoveQuotes(OrElse(At(propertySet.attributes, 2), <<>>))
         IN  IF ~IncludesQuantity(psetName) THEN Undefined
             ELSE XFirstVolumeProperty(ents,
                      XParseList(OrElse(At(propertySet.attributes, 4), <<>>)))

\* IFCElementExtractor.findElementVolume: the loop over the entities from
\* position i
RECURSIVE XFindElementVolumeFrom(_, _, _)
XFindElementVolumeFrom(ents, element, i) ==
    IF i > Len(ents) THEN <<"0", ".", "000">>
    ELSE LET entity == ents[i]
             a4 == At(entity.attributes, 4)
             propertySetRef == At(entity.attributes, 5)
             propertySet == Get(ents, XStripHash(propertySetRef))
             volume == OrElse(XCheckQuantitySet(ents, element, propertySet),
                              XCheckPropertySet(ents, propertySet))
         IN  IF entity.type = "IFCRELDEFINESBYPROPERTIES"
                /\ a4 # Undefined /\ IncludesId(a4, element.id)
                /\ Truthy(propertySetRef) /\ propertySet # NoEnt /\ Truthy(volume)
             THEN volume
             ELSE XFindElementVolumeFrom(ents, element, i + 1)

XFindElementVolume(ents, element) == XFindElementVolumeFrom(ents, element, 1)

----------------------------------------------------------------------------
(* IFCElementExtractor.processMaterialRelationships: material lists *)

\* 0.0001
Epsilon == Rat(1, 10000)

\* materials.reduce((sum, m) => sum + m.fraction, 0)
RECURSIVE SumFractions(_)
SumFractions(ms) ==
    IF ms = <<>> THEN Num(0) ELSE Add(SumFractions(Front(ms)), Last(ms).fraction)

\* A computed material list, or a TypeError thrown while computing it
Threw == [threw |-> TRUE, materials |-> <<>>]

Ok(ms) == [threw |-> FALSE, materials |-> ms]

\* The two branches of a correction step, given the sum of the fractions
XNormalise(materials, totalFraction) ==
    IF Lt(NumAbs(totalFraction), Epsilon) /\ Len(materials) > 0
    THEN [i \in 1..Len(materials) |->
            [materials[i] EXCEPT !.fraction = Div(Num(1), Num(Len(materials)))]]
    ELSE IF Gt(NumAbs(Sub(totalFraction, Num(1))), Epsilon) /\ Gt(totalFraction, Num(0))
    THEN [i \in 1..Len(materials) |->
            [materials[i] EXCEPT !.fraction = Div(@, totalFraction)]]
    ELSE materials

\* A layer-set branch without its correction step
XLayersUncorrected(materials) == materials

\* The correction step of the layer-set branch
XCorrectLayers(materials) ==
    IF Lt(NumAbs(SumFractions(materials)), Epsilon) /\ Len(materials) > 0
    THEN [i \in 1..Len(materials) |->
            [materials[i] EXCEPT !.fraction = Div(Num(1), Num(Len(materials)))]]
    ELSE IF Gt(NumAbs(Sub(SumFractions(materials), Num(1))), Epsilon)
            /\ Gt(SumFractions(materials), Num(0))
    THEN [i \in 1..Len(materials) |->
            [materials[i] EXCEPT !.fraction = Div(@, SumFractions(materials))]]
    ELSE materials

\* parseFloat(x || '0.000')
ParseFloatOrZero(x) == IF Truthy(x) THEN ParseFloat(x) ELSE Num(0)

\* First pass of the layer-set branch: one thickness per listed layer
XLayerThicknesses(ents, layers) ==
    [i \in 1..Len(layers) |->
        LET layer == Get(ents, XStripHash(layers[i]))
        IN  IF layer # NoEnt THEN ParseFloatOrZero(At(layer.attributes, 1)) ELSE Num(0)]

\* totalThickness: the sum of the thicknesses that are numbers and > 0
RECURSIVE SumPositive(_)
SumPositive(ts) ==
    IF ts = <<>> THEN Num(0)
    ELSE IF ~IsNaN(Last(ts)) /\ Gt(Last(ts), Num(0))
         THEN Add(SumPositive(Front(ts)), Last(ts))
         ELSE SumPositive(Front(ts))

\* The fraction of one layer or constituent from its thickness
XFraction(thickness, totalThickness) ==
    IF Le(thickness, Num(0)) THEN Num(0)
    ELSE IF Gt(totalThickness, Num(0)) THEN Div(thickness, totalThickness)
    ELSE Num(0)

\* The name of the material of one layer
XLayerMaterialName(ents, layer) ==
    LET material == Get(ents, XStripHash(At(layer.attributes, 0)))
    IN  IF material # NoEnt /\ material.type = "IFCMATERIAL"
        THEN RemoveQuotes(OrElse(At(material.attributes, 0), UnknownMaterial))
        ELSE UnknownMaterial

\* Second pass of the layer-set branch: the listed layers from position i
\* on; a layer that is not in the store yields no fact
RECURSIVE XLayerFactsFrom(_, _, _, _, _, _)
XLayerFactsFrom(ents, layerSet, layers, ths, total, i) ==
    IF i > Len(layers) THEN <<>>
    ELSE LET layer == Get(ents, XStripHash(layers[i]))
             rest == XLayerFactsFrom(ents, layerSet, layers, ths, total, i + 1)
         IN  IF layer = NoEnt THEN rest
             ELSE <<[name |-> XLayerMaterialName(ents, layer),
                     fraction |-> XFraction(ths[i], total),
                     layerSetName |-> OrElse(At(layerSet.attributes, 1),
                                             <<"Unknown", " ", "Layer", " ", "Set">>),
                     count |-> 1]>> \o rest

\* The two passes and the correction step over the listed layers
XLayerFacts(ents, layerSet, layers, ths) ==
    XCorrectLayers(XLayerFactsFrom(ents, layerSet, layers, ths, SumPositive(ths), 1))

\* stripHashFromId(layer.attributes[0]) throws for a layer without attributes
XLayerThrows(ents, layers) ==
    \E i \in 1..Len(layers) :
        /\ Get(ents, XStripHash(layers[i])) # NoEnt
        /\ XThrows(At(Get(ents, XStripHash(layers[i])).attributes, 0))

XLayersOf(ents, layerSet, layers) ==
    IF XLayerThrows(ents, layers) THEN Threw
    ELSE Ok(XLayerFacts(ents, layerSet, layers, XLayerThicknesses(ents, layers)))

XLayerSetOf(ents, layerSet) ==
    IF layerSet = NoEnt \/ layerSet.type # "IFCMATERIALLAYERSET" THEN Ok(<<>>)
    ELSE XLayersOf(ents, layerSet, XParseList(At(layerSet.attributes, 0)))

\* The IFCMATERIALLAYERSETUSAGE branch
XLayerSetUsage(ents, materialEntity) ==
    IF XThrows(At(materialEntity.attributes, 0)) THEN Threw
    ELSE XLayerSetOf(ents, Get(ents, XStripHash(At(materialEntity.attributes, 0))))

\* The IFCMATERIAL branch
XSingleMaterial(materialEntity) ==
    <<[name |-> OrElse(StripQuoteEnds(At(materialEntity.attributes, 0)), UnknownMaterial),
       fraction |-> Num(1),
       layerSetName |-> <<"Single", " ", "Material">>,
       count |-> 1]>>

----------------------------------------------------------------------------
(* IFCElementExtractor.processMaterialRelationships: constituent weights *)

ThicknessNames == {Str("Width"), Str("LayerThickness"), Str("Thickness")}

IsZero(x) == ~x.nan /\ x.n = 0

\* The inner loop of Method 1: the first listed IFCQUANTITYLENGTH with a
\* thickness name sets the thickness; without one it keeps its value
RECURSIVE XComplexQuantityThickness(_, _, _)
XComplexQuantityThickness(ents, quantities, th) ==
    IF quantities = <<>> THEN th
    ELSE LET quantity == Get(ents, XStripHash(Head(quantities))) IN
         IF quantity.type = "IFCQUANTITYLENGTH"
            /\ At(quantity.attributes, 0) \in ThicknessNames
         THEN ParseFloatOrZero(At(quantity.attributes, 3))
         ELSE XComplexQuantityThickness(ents, Tail(quantities), th)

\* Method 1: the complex quantities named like the constituent, in store
\* order, until one yields a thickness > 0
RECURSIVE XMethod1From(_, _, _, _)
XMethod1From(ents, constituentName, i, th) ==
    IF i > Len(ents) THEN th
    ELSE LET entity == ents[i] IN
         IF entity.type = "IFCPHYSICALCOMPLEXQUANTITY"
            /\ At(entity.attributes, 0) = constituentName
         THEN LET th1 == XComplexQuantityThickness(ents,
                             XParseList(OrElse(At(entity.attributes, 2), <<>>)), th)
              IN  IF Gt(th1, Num(0)) THEN th1
                  ELSE XMethod1From(ents, constituentName, i + 1, th1)
         ELSE XMethod1From(ents, constituentName, i + 1, th)

\* The window of Method 2: the ids constituentId - 5 .. constituentId - 1
PrecedingWindow == 5

\* Method 2: the first IFCQUANTITYLENGTH with a thickness name among the
\* ids just before the constituent's
RECURSIVE XMethod2From(_, _, _)
XMethod2From(ents, constituentId, i) ==
    IF i >= constituentId THEN Num(0)
    ELSE LET entity == IF i >= 0 THEN Get(ents, Str(DigitRun(i))) ELSE NoEnt IN
         IF entity.type = "IFCQUANTITYLENGTH"
            /\ At(entity.attributes, 0) \in ThicknessNames
         THEN ParseFloatOrZero(At(entity.attributes, 3))
         ELSE XMethod2From(ents, constituentId, i + 1)

\* The inner loop of findPropertyValue: the first listed single-value
\* property of that name with a truthy value
RECURSIVE XFirstProperty(_, _, _)
XFirstProperty(ents, propertyRefs, propertyName) ==
    IF propertyRefs = <<>> THEN Undefined
    ELSE LET property == Get(ents, XStripHash(Head(propertyRefs))) IN
         IF property # NoEnt /\ property.type = "IFCPROPERTYSINGLEVALUE"
            /\ RemoveQuotes(OrElse(At(property.attributes, 0), <<>>)) = propertyName
            /\ Truthy(At(property.attributes, 2))
         THEN At(property.attributes, 2)
         ELSE XFirstProperty(ents, Tail(propertyRefs), propertyName)

\* IFCElementExtractor.findPropertyValue
RECURSIVE XFindPropertyValueFrom(_, _, _, _)
XFindPropertyValueFrom(ents, entity, propertyName, i) ==
    IF i > Len(ents) THEN Undefined
    ELSE LET relEntity == ents[i]
             relatedObjects == At(relEntity.attributes, 4)
             propertySetRef == At(relEntity.attributes, 5)
             propertySet == Get(ents, XStripHash(propertySetRef))
             properties == At(propertySet.attributes, 4)
             objectRefs == SplitComma(relatedObjects, <<>>)
             value == XFirstProperty(ents, SplitComma(properties, <<>>), propertyName)
         IN  IF relEntity.type = "IFCRELDEFINESBYPROPERTIES"
                /\ Truthy(relatedObjects)
                /\ \E k \in 1..Len(objectRefs) : objectRefs[k] = <<"#">> \o entity.id
                /\ Truthy(propertySetRef) /\ propertySet # NoEnt
                /\ Truthy(properties) /\ Truthy(value)
             THEN value
             ELSE XFindPropertyValueFrom(ents, entity, propertyName, i + 1)

XFindPropertyValue(ents, entity, propertyName) ==
    XFindPropertyValueFrom(ents, entity, propertyName, 1)

\* Method 3: LayerThickness, else Width, else Thickness from a property set
XMethod3(ents, constituentEntity) ==
    OrElse(XFindPropertyValue(ents, constituentEntity, Str("LayerThickness")),
           OrElse(XFindPropertyValue(ents, constituentEntity, Str("Width")),
                  XFindPropertyValue(ents, constituentEntity, Str("Thickness"))))

\* The material a constituent names: attribute 3, else attribute 2
XConstituentMaterial(ents, constituentEntity) ==
    LET materialRef == OrElse(At(constituentEntity.attributes, 3),
                              At(constituentEntity.attributes, 2))
    IN  IF Truthy(materialRef) THEN Get(ents, XStripHash(materialRef)) ELSE NoEnt

\* The inner loop of Method 4: the first listed layer of that material name
\* with a thickness > 0
RECURSIVE XLayerOfMaterial(_, _, _)
XLayerOfMaterial(ents, layerRefs, materialName) ==
    IF layerRefs = <<>> THEN Num(0)
    ELSE LET layer == Get(ents, XStripHash(Head(layerRefs)))
             layerMaterialRef == At(layer.attributes, 0)
             layerMaterial == IF Truthy(layerMaterialRef)
                              THEN Get(ents, XStripHash(layerMaterialRef)) ELSE NoEnt
             layerThickness == ParseFloatOrZero(At(layer.attributes, 1))
         IN  IF layer.type = "IFCMATERIALLAYER"
                /\ StripQuoteEnds(At(layerMaterial.attributes, 0)) = materialName
                /\ Gt(layerThickness, Num(0))
             THEN layerThickness
             ELSE XLayerOfMaterial(ents, Tail(layerRefs), materialName)

\* Method 4: the layer sets in store order
RECURSIVE XMethod4From(_, _, _)
XMethod4From(ents, materialName, i) ==
    IF i > Len(ents) THEN Num(0)
    ELSE LET entity == ents[i]
             th == XLayerOfMaterial(ents, XParseList(OrElse(At(entity.attributes, 0), <<>>)),
                                    materialName)
         IN  IF entity.type = "IFCMATERIALLAYERSET" /\ Gt(th, Num(0)) THEN th
             ELSE XMethod4From(ents, materialName, i + 1)

\* Method 2 runs only while the thickness is still exactly 0
XTryMethod2(ents, constituentId, thickness) ==
    IF IsZero(thickness)
    THEN XMethod2From(ents, constituentId, constituentId - PrecedingWindow)
    ELSE thickness

\* Method 3 runs only while the thickness is still exactly 0
XTryMethod3(propThickness, thickness) ==
    IF IsZero(thickness) /\ Truthy(propThickness) THEN ParseFloat(propThickness)
    ELSE thickness

\* Method 4 runs only while the thickness is still exactly 0
XTryMethod4(ents, constituentEntity, thickness) ==
    IF IsZero(thickness)
    THEN XMethod4From(ents,
             StripQuoteEnds(At(XConstituentMaterial(ents, constituentEntity).attributes, 0)),
             1)
    ELSE thickness

\* The weight of one constituent: Methods 1 to 4 in turn
XConstituentThickness(ents, ref, constituentEntity) ==
    XTryMethod4(ents, constituentEntity,
        XTryMethod3(XMethod3(ents, constituentEntity),
            XTryMethod2(ents, DigitValue(XStripHash(ref)[1]),
                XMethod1From(ents, StripQuoteEnds(At(constituentEntity.attributes, 0)),
                             1, Num(0)))))

IsConstituent(e) == e # NoEnt /\ e.type = "IFCMATERIALCONSTITUENT"

\* One thickness is pushed for a reference that names a constituent
XThicknessOfRef(ents, ref, c) ==
    IF IsConstituent(c) THEN <<XConstituentThickness(ents, ref, c)>> ELSE <<>>

\* First pass of the constituent-set branch
RECURSIVE XConstituentThicknesses(_, _)
XConstituentThicknesses(ents, refs) ==
    IF refs = <<>> THEN <<>>
    ELSE XConstituentThicknesses(ents, Front(refs))
           \o XThicknessOfRef(ents, Last(refs), Get(ents, XStripHash(Last(refs))))

----------------------------------------------------------------------------
(* IFCElementExtractor.processMaterialRelationships: the constituent set,  *)
(* and one iteration of the loop over the entities                         *)

\* s.split(" (")[0]
RECURSIVE BeforeSpaceParen(_)
BeforeSpaceParen(s) ==
    IF s = <<>> THEN <<>>
    ELSE IF Len(s) >= 2 /\ s[1] = " " /\ s[2] = "(" THEN <<>>
    ELSE <<Head(s)>> \o BeforeSpaceParen(Tail(s))

\* The name of the material of one constituent
XConstituentMaterialName(ents, constituentEntity) ==
    LET actualMaterial == XConstituentMaterial(ents, constituentEntity)
        own == At(constituentEntity.attributes, 0)
    IN  RemoveQuotes(
            IF Truthy(At(actualMaterial.attributes, 0)) THEN At(actualMaterial.attributes, 0)
            ELSE IF Truthy(own) THEN BeforeSpaceParen(RemoveQuotes(own))
            ELSE UnknownMaterial)

\* constituentThicknesses[index]: undefined past the end of the array, and
\* undefined acts as NaN in the comparisons and the division that follow
ThicknessAt(ths, index) == IF index < Len(ths) THEN ths[index + 1] ELSE NaN

\* Second pass of the constituent-set branch: index is the position of the
\* reference in constituentRefs
RECURSIVE XConstituentFactsFrom(_, _, _, _, _, _)
XConstituentFactsFrom(ents, materialEntity, refs, ths, total, i) ==
    IF i > Len(refs) THEN <<>>
    ELSE LET c == Get(ents, XStripHash(refs[i]))
             rest == XConstituentFactsFrom(ents, materialEntity, refs, ths, total, i + 1)
         IN  IF ~IsConstituent(c) THEN rest
             ELSE <<[name |-> XConstituentMaterialName(ents, c),
                     fraction |-> XFraction(ThicknessAt(ths, i - 1), total),
                     layerSetName |-> OrElse(At(materialEntity.attributes, 0),
                                             <<"Unknown", " ", "Constituent", " ", "Set">>),
                     count |-> 1]>> \o rest

\* A constituent-set branch without its correction step
XKeepFractions(materials) == materials

\* The correction step of the constituent-set branch
XCorrectConstituents(materials) == XNormalise(materials, SumFractions(materials))

\* The second pass and the correction step over the listed constituents
XConstituentFacts(ents, materialEntity, constituentRefs, ths) ==
    XCorrectConstituents(
        XConstituentFactsFrom(ents, materialEntity, constituentRefs, ths, SumPositive(ths), 1))

XConstituentsOf(ents, materialEntity, constituentRefs) ==
    XConstituentFacts(ents, materialEntity, constituentRefs,
                      XConstituentThicknesses(ents, constituentRefs))

\* The IFCMATERIALCONSTITUENTSET branch
XConstituentSet(ents, materialEntity) ==
    XConstituentsOf(ents, materialEntity,
                    XParseList(OrElse(At(materialEntity.attributes, 2), <<>>)))

\* The material list of a relating material that is in the store
XMaterialsOf(ents, materialEntity) ==
    CASE materialEntity.type = "IFCMATERIALLAYERSETUSAGE" -> XLayerSetUsage(ents, materialEntity)
      [] materialEntity.type = "IFCMATERIALCONSTITUENTSET" ->
            Ok(XConstituentSet(ents, materialEntity))
      [] materialEntity.type = "IFCMATERIAL" -> Ok(XSingleMaterial(materialEntity))
      [] OTHER -> Ok(<<>>)

\* relationships.get(elementId) || { materials: [] }
XExisting(rels, elementId) ==
    IF HasKey(rels, elementId) THEN Get(rels, elementId)
    ELSE [id |-> elementId, materials |-> <<>>, spatialStructure |-> NoEnt]

\* A spatial branch that sets a fresh entry for each related element
RECURSIVE XAttachStoreyFresh(_, _, _)
XAttachStoreyFresh(rels, relatedElements, storey) ==
    IF relatedElements = <<>> THEN rels
    ELSE XAttachStoreyFresh(
             MapSet(rels, [id |-> XStripHash(Head(relatedElements)), materials |-> <<>>,
                           spatialStructure |-> storey]),
             Tail(relatedElements), storey)

\* The loop of the spatial branch over the related elements
RECURSIVE XAttachStorey(_, _, _)
XAttachStorey(rels, relatedElements, storey) ==
    IF relatedElements = <<>> THEN rels
    ELSE LET elementId == XStripHash(Head(relatedElements))
         IN  XAttachStorey(
                 MapSet(rels, [XExisting(rels, elementId) EXCEPT !.spatialStructure = storey]),
                 Tail(relatedElements), storey)

\* materials.map(m => ({ ...m, volume: m.fraction * elementVolume }))
XWithVolume(materials, elementVolume) ==
    [i \in 1..Len(materials) |->
        [name |-> materials[i].name, fraction |-> materials[i].fraction,
         layerSetName |-> materials[i].layerSetName, count |-> materials[i].count,
         volume |-> Mul(materials[i].fraction, elementVolume)]]

\* One related element: an element that is in the store gets the list, with
\* each fact's share of its volume
XAttachOne(ents, rels, elementId, element, materials) ==
    IF element = NoEnt THEN rels
    ELSE MapSet(rels,
             [XExisting(rels, elementId) EXCEPT !.materials =
                 XWithVolume(materials,
                     ParseFloat(OrElse(XFindElementVolume(ents, element), Str("0"))))])

\* The loop of the material branch over the related elements
RECURSIVE XAttachMaterials(_, _, _, _)
XAttachMaterials(ents, rels, relatedElements, materials) ==
    IF relatedElements = <<>> THEN rels
    ELSE XAttachMaterials(ents,
             XAttachOne(ents, rels, XStripHash(Head(relatedElements)),
                        Get(ents, XStripHash(Head(relatedElements))), materials),
             Tail(relatedElements), materials)

XIsDanglingMaterialRel(ents, entity) ==
    /\ entity.type = "IFCRELASSOCIATESMATERIAL"
    /\ ~XThrows(At(entity.attributes, 5))
    /\ Get(ents, XStripHash(At(entity.attributes, 5))) = NoEnt

\* The material branch once the material list is computed
XAttachResult(ents, rels, relatedElements, ms) ==
    IF ms.threw THEN [threw |-> TRUE, rels |-> rels]
    ELSE [threw |-> FALSE,
          rels |-> XAttachMaterials(ents, rels, relatedElements, ms.materials)]

\* The material branch: a relating material that is not in the store is
\* skipped
XMaterialBranch(ents, rels, relatedElements, materialEntity) ==
    IF materialEntity = NoEnt THEN [threw |-> FALSE, rels |-> rels]
    ELSE XAttachResult(ents, rels, relatedElements, XMaterialsOf(ents, materialEntity))

\* One iteration of the loop of processMaterialRelationships: the new
\* relationship index, or a TypeError
XProcessEntity(ents, rels, entity) ==
    CASE entity.type = "IFCRELCONTAINEDINSPATIALSTRUCTURE" ->
           IF XThrows(At(entity.attributes, 5)) THEN [threw |-> TRUE, rels |-> rels]
           ELSE [threw |-> FALSE,
                 rels |-> XAttachStorey(rels, XParseList(At(entity.attributes, 4)),
                                        Get(ents, XStripHash(At(entity.attributes, 5))))]
      [] entity.type = "IFCRELASSOCIATESMATERIAL" ->
           IF XThrows(At(entity.attributes, 5)) THEN [threw |-> TRUE, rels |-> rels]
           ELSE XMaterialBranch(ents, rels, XParseList(At(entity.attributes, 4)),
                                Get(ents, XStripHash(At(entity.attributes, 5))))
      [] OTHER -> [threw |-> FALSE, rels |-> rels]

----------------------------------------------------------------------------
(* The files given to IFCElementExtractor *)

\* How many layers a layer set lists, and constituents a constituent set
MaxLayers == 3

MaxConstituents == 3

RECURSIVE JoinComma(_)
JoinComma(items) ==
    IF items = <<>> THEN <<>>
    ELSE IF Len(items) = 1 THEN items[1]
    ELSE items[1] \o <<",">> \o JoinComma(Tail(items))

Ref(n) == <<"#", DigitRun(n)>>

Quoted(a) == <<"'", a, "'">>

ListOf(items) == <<"(">> \o JoinComma(items) \o <<")">>

Line(n, type, attrs) == <<"#", DigitRun(n), "=", type, "(">> \o JoinComma(attrs) \o <<")", ";">>

Dollar == <<"$">>

DataMarker == <<"DATA", ";">>

EndsecMarker == <<"ENDSEC", ";">>

\* The lines of a sequence of optional lines that are present (non-empty)
RECURSIVE Present(_)
Present(ls) ==
    IF ls = <<>> THEN <<>>
    ELSE IF Head(ls) = <<>> THEN Present(Tail(ls)) ELSE <<Head(ls)>> \o Present(Tail(ls))

If(b, line) == IF b THEN line ELSE <<>>

WallLine == Line(1, "IFCWALL", <<Quoted("g"), Dollar, Quoted("W")>>)

MaterialLine == Line(5, "IFCMATERIAL", <<Quoted("Brick")>>)

RelMaterialLine(n, to) ==
    Line(n, "IFCRELASSOCIATESMATERIAL",
         <<Quoted("g"), Dollar, Dollar, Dollar, ListOf(<<Ref(1)>>), Ref(to)>>)

\* The lines that give element 1 a volume of 12 through its base quantities
VolumeLines ==
    << Line(15, "IFCRELDEFINESBYPROPERTIES",
            <<Quoted("g"), Dollar, Dollar, Dollar, ListOf(<<Ref(1)>>), Ref(16)>>),
       Line(16, "IFCELEMENTQUANTITY",
            <<Quoted("g"), Dollar, Quoted("BaseQuantities"), Dollar, Dollar,
              ListOf(<<Ref(17)>>)>>),
       Line(17, "IFCQUANTITYVOLUME", <<Quoted("NetVolume"), Dollar, Dollar, Str("12")>>) >>

\* The thickness attribute a layer line may carry; "none": no such line,
\* so the layer set's reference to it dangles
LayerVariants == {"none", "100", "300", "0", "neg", "abc"}

LayerThicknessText(v) == IF v = "neg" THEN <<"-", "50">> ELSE Str(v)

LayerLine(k, v) ==
    If(v # "none", Line(10 + k, "IFCMATERIALLAYER", <<Ref(5), LayerThicknessText(v)>>))

LayerSetLine(n) ==
    Line(4, "IFCMATERIALLAYERSET",
         <<ListOf([k \in 1..n |-> Ref(10 + k)]), Quoted("LS")>>)

\* A wall whose material is a layer set usage
LayerFile(vs, withMaterial, withVolume) ==
    <<DataMarker, WallLine, RelMaterialLine(2, 3),
      Line(3, "IFCMATERIALLAYERSETUSAGE", <<Ref(4)>>), LayerSetLine(MaxLayers)>>
    \o Present([k \in 1..MaxLayers |-> LayerLine(k, vs[k])])
    \o Present(<<If(withMaterial, MaterialLine)>>)
    \o (IF withVolume THEN VolumeLines ELSE <<>>)
    \o <<EndsecMarker>>

LayerFiles ==
    {LayerFile(vs, m, q) : vs \in [1..MaxLayers -> LayerVariants], m \in BOOLEAN, q \in BOOLEAN}

ConstituentNames == <<"A", "B", "C", "D", "E">>

\* What the id a constituent set lists may hold: nothing (a dangling
\* reference), a constituent, or a record of another type
ConstituentVariants == {"none", "constituent", "other"}

ConstituentLine(k, v) ==
    CASE v = "constituent" ->
            Line(20 + k, "IFCMATERIALCONSTITUENT",
                 <<Quoted(ConstituentNames[k]), Dollar, Ref(5)>>)
      [] v = "other" -> Line(20 + k, "IFCMATERIALLIST", <<Quoted(ConstituentNames[k])>>)
      [] OTHER -> <<>>

\* Method 1 for constituent A: a complex quantity of that name whose length
\* quantity Width has the value w
Method1Variants == {"none", "100", "abc"}

Method1Lines(w) ==
    IF w = "none" THEN <<>>
    ELSE << Line(28, "IFCPHYSICALCOMPLEXQUANTITY",
                 <<Quoted("A"), Dollar, ListOf(<<Ref(29)>>)>>),
            Line(29, "IFCQUANTITYLENGTH", <<Quoted("Width"), Dollar, Dollar, Str(w)>>) >>

\* Method 2: a length quantity whose id lies just before every constituent's
Method2Lines ==
    << Line(20, "IFCQUANTITYLENGTH", <<Quoted("Thickness"), Dollar, Dollar, Str("200")>>) >>

\* Method 3 for constituent B: a property set related to it
Method3Lines ==
    << Line(25, "IFCRELDEFINESBYPROPERTIES",
            <<Quoted("g"), Dollar, Dollar, Dollar, ListOf(<<Ref(22)>>), Ref(26)>>),
       Line(26, "IFCPROPERTYSET",
            <<Quoted("g"), Dollar, Quoted("P"), Dollar, ListOf(<<Ref(27)>>)>>),
       Line(27, "IFCPROPERTYSINGLEVALUE", <<Quoted("Width"), Dollar, Str("300")>>) >>

\* Method 4: a layer set with a layer of the constituents' material
Method4Lines ==
    << LayerSetLine(1), LayerLine(1, "100"), MaterialLine >>

\* A wall whose material is a constituent set
ConstituentFile(vs, m1, m2, m3, m4) ==
    <<DataMarker, WallLine, RelMaterialLine(2, 7),
      Line(7, "IFCMATERIALCONSTITUENTSET",
           <<Quoted("CS"), Dollar, ListOf([k \in 1..MaxConstituents |-> Ref(20 + k)])>>)>>
    \o Present([k \in 1..MaxConstituents |-> ConstituentLine(k, vs[k])])
    \o Method1Lines(m1)
    \o (IF m2 THEN Method2Lines ELSE <<>>)
    \o (IF m3 THEN Method3Lines ELSE <<>>)
    \o (IF m4 THEN Method4Lines ELSE <<>>)
    \o <<EndsecMarker>>

ConstituentFiles ==
    {ConstituentFile(vs, m1, m2, m3, m4) :
        vs \in [1..MaxConstituents -> ConstituentVariants], m1 \in Method1Variants,
        m2 \in BOOLEAN, m3 \in BOOLEAN, m4 \in BOOLEAN}

\* Single materials, storeys, dangling and malformed relationship records:
\* every selection of these lines, in this order
OtherLines ==
    << WallLine,
       RelMaterialLine(2, 5),
       Line(3, "IFCRELASSOCIATESMATERIAL", <<Quoted("g"), Dollar>>),
       Line(8, "IFCRELCONTAINEDINSPATIALSTRUCTURE",
            <<Quoted("g"), Dollar, Dollar, Dollar, ListOf(<<Ref(1)>>), Ref(6)>>),
       Line(2, "IFCRELASSOCIATESMATERIAL",
            <<Quoted("g"), Dollar, Dollar, Dollar, ListOf(<<Ref(1)>>), Ref(9)>>),
       Line(9, "IFCMATERIALLAYERSETUSAGE", <<>>),
       MaterialLine,
       Line(6, "IFCBUILDINGSTOREY", <<Quoted("g"), Dollar, Quoted("L1")>>) >>

OtherFiles ==
    { <<DataMarker>> \o Present([i \in 1..Len(OtherLines) |-> If(i \in sel, OtherLines[i])])
        : sel \in SUBSET (1..Len(OtherLines)) }

WoodLine == Line(7, "IFCMATERIAL", <<Quoted("Wood")>>)

\* Files in which two material associations name element 1: the records 2
\* and 12, in either order in the file; the relating material of record 12
\* is in the file or not
XTwoAssociationFiles ==
    { <<DataMarker, WallLine, RelMaterialLine(2, 5), RelMaterialLine(12, 7), MaterialLine,
        WoodLine>>,
      <<DataMarker, WallLine, RelMaterialLine(12, 7), RelMaterialLine(2, 5), MaterialLine,
        WoodLine>>,
      <<DataMarker, WallLine, RelMaterialLine(2, 5), RelMaterialLine(12, 7), MaterialLine>> }

\* Base quantities of element 1 that hold a NetVolume of 12 and a
\* GrossVolume of 15, the net volume listed first or second
BothVolumeLines(netFirst) ==
    << Line(15, "IFCRELDEFINESBYPROPERTIES",
            <<Quoted("g"), Dollar, Dollar, Dollar, ListOf(<<Ref(1)>>), Ref(16)>>),
       Line(16, "IFCELEMENTQUANTITY",
            <<Quoted("g"), Dollar, Quoted("BaseQuantities"), Dollar, Dollar,
              ListOf(<<Ref(17), Ref(18)>>)>>),
       Line(17, "IFCQUANTITYVOLUME",
            IF netFirst THEN <<Quoted("NetVolume"), Dollar, Dollar, Str("12")>>
            ELSE <<Quoted("GrossVolume"), Dollar, Dollar, Str("15")>>),
       Line(18, "IFCQUANTITYVOLUME",
            IF netFirst THEN <<Quoted("GrossVolume"), Dollar, Dollar, Str("15")>>
            ELSE <<Quoted("NetVolume"), Dollar, Dollar, Str("12")>>) >>

XBothVolumeFiles ==
    { <<DataMarker, WallLine, RelMaterialLine(2, 5), MaterialLine>> \o BothVolumeLines(netFirst)
        \o <<EndsecMarker>> : netFirst \in BOOLEAN }

\* Names of element 1 that hold a comma or a parenthesis inside the quotes
QuotedNames ==
    { <<"'", "W", ",", "x", "'">>, <<"'", "W", "(", "x", "'">>, <<"'", "W", ")", "x", "'">>,
      <<"'", "W", "(", "x", ")", "'">> }

XQuotedFiles ==
    { <<DataMarker, Line(1, "IFCWALL", <<Quoted("g"), Dollar, name, Ref(30)>>),
        RelMaterialLine(2, 5), MaterialLine, EndsecMarker>> : name \in QuotedNames }

\* The association of wall 1 with material 5 and its containment in
\* storey 6, written before the records they reference, or after them
XOrderFiles ==
    { <<DataMarker, RelMaterialLine(2, 5),
        Line(8, "IFCRELCONTAINEDINSPATIALSTRUCTURE",
             <<Quoted("g"), Dollar, Dollar, Dollar, ListOf(<<Ref(1)>>), Ref(6)>>),
        WallLine, MaterialLine,
        Line(6, "IFCBUILDINGSTOREY", <<Quoted("g"), Dollar, Quoted("EG")>>), EndsecMarker>>,
      <<DataMarker, WallLine, MaterialLine,
        Line(6, "IFCBUILDINGSTOREY", <<Quoted("g"), Dollar, Quoted("EG")>>),
        RelMaterialLine(2, 5),
        Line(8, "IFCRELCONTAINEDINSPATIALSTRUCTURE",
             <<Quoted("g"), Dollar, Dollar, Dollar, ListOf(<<Ref(1)>>), Ref(6)>>),
        EndsecMarker>> }

\* A containment of element 1 in the structure given
RelContainedLine(n, to) ==
    Line(n, "IFCRELCONTAINEDINSPATIALSTRUCTURE",
         <<Quoted("g"), Dollar, Dollar, Dollar, ListOf(<<Ref(1)>>), Ref(to)>>)

\* Two containments of wall 1: in storey 6, then in a structure 9 that the
\* file does not hold; wall 1 has a material or not
TwoContainmentLines(withMaterial) ==
    <<WallLine>>
    \o (IF withMaterial THEN <<RelMaterialLine(2, 5), MaterialLine>> ELSE <<>>)
    \o <<RelContainedLine(8, 6), RelContainedLine(18, 9),
         Line(6, "IFCBUILDINGSTOREY", <<Quoted("g"), Dollar, Quoted("EG")>>)>>

XDanglingStoreyFiles ==
    { <<DataMarker>> \o TwoContainmentLines(m) \o <<EndsecMarker>> : m \in BOOLEAN }

\* Two walls 1 and 21: material 5 for wall 1, storey 6 for wall 21, then
\* material 5 for wall 21, then storey 6 for both
TwoElementLines ==
    << WallLine, Line(21, "IFCWALL", <<Quoted("g"), Dollar, Quoted("V")>>),
       RelMaterialLine(2, 5),
       Line(8, "IFCRELCONTAINEDINSPATIALSTRUCTURE",
            <<Quoted("g"), Dollar, Dollar, Dollar, ListOf(<<Ref(21)>>), Ref(6)>>),
       MaterialLine,
       Line(6, "IFCBUILDINGSTOREY", <<Quoted("g"), Dollar, Quoted("EG")>>),
       Line(12, "IFCRELASSOCIATESMATERIAL",
            <<Quoted("g"), Dollar, Dollar, Dollar, ListOf(<<Ref(21)>>), Ref(5)>>),
       Line(18, "IFCRELCONTAINEDINSPATIALSTRUCTURE",
            <<Quoted("g"), Dollar, Dollar, Dollar, ListOf(<<Ref(1), Ref(21)>>), Ref(6)>>) >>

XTwoElementFiles == { <<DataMarker>> \o TwoElementLines \o <<EndsecMarker>> }

\* Base quantities with a NetVolume of 12, defined for the elements listed;
\* wall 1 has the single material 5
XVolumeForFile(related) ==
    << DataMarker, WallLine, Line(12, "IFCSLAB", <<Quoted("g"), Dollar, Quoted("S")>>),
       RelMaterialLine(2, 5), MaterialLine,
       Line(15, "IFCRELDEFINESBYPROPERTIES",
            <<Quoted("g"), Dollar, Dollar, Dollar,
              ListOf([i \in 1..Len(related) |-> Ref(related[i])]), Ref(16)>>),
       Line(16, "IFCELEMENTQUANTITY",
            <<Quoted("g"), Dollar, Quoted("BaseQuantities"), Dollar, Dollar,
              ListOf(<<Ref(17)>>)>>),
       Line(17, "IFCQUANTITYVOLUME", <<Quoted("NetVolume"), Dollar, Dollar, Str("12")>>),
       EndsecMarker >>

\* The quantities are defined for wall 1, for slab 12, for both, or for
\* the id 21 the file does not hold
XVolumeForFiles == {XVolumeForFile(r) : r \in {<<1>>, <<12>>, <<12, 1>>, <<21>>, <<2>>}}

IsoMarker == <<"ISO", "-", "10303", "-", "21", ";">>

HeaderMarker == <<"HEADER", ";">>

\* A wall line of the id given
OtherWallLine(n) == Line(n, "IFCWALL", <<Quoted("g"), Dollar, Quoted("H")>>)

\* Files with entity lines in the header section (20), between the header
\* and the data section (21) and after the data section (22), with blank
\* lines, with or without a second data section (23), and a file without
\* any DATA; line
XSectionFiles ==
    { <<IsoMarker, HeaderMarker, OtherWallLine(20), EndsecMarker, <<>>, OtherWallLine(21),
        DataMarker, WallLine, <<" ">>, RelMaterialLine(2, 5), MaterialLine, EndsecMarker,
        OtherWallLine(22)>> \o more
        : more \in {<<>>, <<DataMarker, OtherWallLine(23), EndsecMarker>>} }
    \cup { <<IsoMarker, OtherWallLine(20), WallLine, MaterialLine, EndsecMarker>> }

XFiles ==
    LayerFiles \cup ConstituentFiles \cup OtherFiles \cup XTwoAssociationFiles
        \cup XBothVolumeFiles \cup XQuotedFiles \cup XOrderFiles \cup XDanglingStoreyFiles
        \cup XSectionFiles \cup XTwoElementFiles \cup XVolumeForFiles

----------------------------------------------------------------------------
(* IFCElementExtractor: the constructor, step by step *)

\* Nothing returned yet
PNone ==
    [threw |-> FALSE, elements |-> <<>>, elementsByType |-> <<>>,
     elementsByStorey |-> <<>>, materialUsage |-> <<>>]

\* No IFCElementExtractor is constructed
XIdle ==
    /\ xContent = <<>>
    /\ xLines = <<>>
    /\ xState = [currentLine |-> 0, inDataSection |-> FALSE, inHeader |-> FALSE]
    /\ xEntities = <<>>
    /\ xRels = <<>>
    /\ xPos = 1
    /\ xPc = "idle"

\* No IFCParser is constructed
PIdle ==
    /\ pContent = <<>>
    /\ pPrior = <<>>
    /\ pCall = 0
    /\ pLines = <<>>
    /\ pEntities = <<>>
    /\ pWalls = <<>>
    /\ pErrors = <<>>
    /\ pRels = <<>>
    /\ pPos = 1
    /\ pPc = "idle"
    /\ pResult = PNone
    /\ pFresh = PNone

\* The fields the constructor of the ParseResult variant sets
RConstructed ==
    [entities |-> <<>>, walls |-> <<>>, materialLayers |-> <<>>,
     materialLayerSets |-> <<>>, materialLayerSetUsages |-> <<>>,
     relationshipAssigns |-> <<>>, shapeRepresentations |-> <<>>, relationships |-> <<>>]

\* No ParseResult yet
RNone ==
    [threw |-> FALSE, projectName |-> Undefined, wallNames |-> <<>>,
     relationships |-> <<>>, errors |-> <<>>,
     buildingElements |-> <<>>, buildingStoreys |-> <<>>, walls |-> <<>>]

\* No IFCParser of the ParseResult variant is constructed
RIdle ==
    /\ rContent = <<>>
    /\ rLines = <<>>
    /\ rState = RConstructed
    /\ rErrors = <<>>
    /\ rPos = 1
    /\ rPc = "idle"
    /\ rResult = RNone
    /\ rGeometry = <<>>
    /\ rWallCalls = 0

\* No correction step is under observation
MIdle ==
    /\ mRaw = <<>>
    /\ mLayers = <<>>
    /\ mConstituents = <<>>
    /\ mDone = {}

\* No IfcParserWorker is constructed
WIdle ==
    /\ wRequests = <<>>
    /\ wListeners = <<>>
    /\ wInbox = <<>>
    /\ wRunning = {}
    /\ wOutbox = <<>>
    /\ wSettled = <<>>
    /\ wPc = "idle"

\* The fields of a Tokenizer as the initialisers leave them
TConstructed == [position |-> 0, line |-> 1, column |-> 1, errors |-> <<>>]

\* No Tokenizer is constructed
TIdle ==
    /\ tInput = <<>>
    /\ tState = TConstructed
    /\ tTokens = <<>>
    /\ tPc = "idle"

XInit ==
    /\ PIdle
    /\ RIdle
    /\ MIdle
    /\ TIdle
    /\ WIdle
    /\ xContent \in XFiles
    /\ xLines = xContent
    /\ xState = [currentLine |-> 0, inDataSection |-> FALSE, inHeader |-> FALSE]
    /\ xEntities = <<>>
    /\ xRels = <<>>
    /\ xPos = 1
    /\ xPc = "read"

\* parseIFCFile: one iteration of the loop over the lines
XReadLine ==
    /\ xPc = "read" /\ xLines # <<>>
    /\ \E r \in {XReadOne(xState, xEntities, Head(xLines))} :
         /\ xState' = r.state
         /\ xEntities' = r.entities
    /\ xLines' = Tail(xLines)
    /\ UNCHANGED <<xRels, xPos, xPc>>
    /\ UNCHANGED <<xContent, pvars, rvars, mvars, tvars, wvars>>

\* A constructor that calls processMaterialRelationships while lines are
\* still unread
XStartResolveEarly ==
    /\ xPc = "read"
    /\ xPc' = "resolve"
    /\ UNCHANGED <<xLines, xState, xEntities, xRels, xPos>>
    /\ UNCHANGED <<xContent, pvars, rvars, mvars, tvars, wvars>>

\* parseIFCFile returns; the constructor calls processMaterialRelationships
XStartResolve ==
    /\ xPc = "read" /\ xLines = <<>>
    /\ xPc' = "resolve"
    /\ UNCHANGED <<xLines, xState, xEntities, xRels, xPos>>
    /\ UNCHANGED <<xContent, pvars, rvars, mvars, tvars, wvars>>

\* processMaterialRelationships: one iteration of the loop over the
\* entities; a TypeError leaves the constructor
XResolveStep ==
    /\ xPc = "resolve" /\ xPos <= Len(xEntities)
    /\ \E r \in {XProcessEntity(xEntities, xRels, xEntities[xPos])} :
         IF r.threw
         THEN xPc' = "threw" /\ UNCHANGED <<xRels, xPos>>
         ELSE xRels' = r.rels /\ xPos' = xPos + 1 /\ xPc' = xPc
    /\ UNCHANGED <<xLines, xState, xEntities>>
    /\ UNCHANGED <<xContent, pvars, rvars, mvars, tvars, wvars>>

\* processMaterialRelationships returns
XFinish ==
    /\ xPc = "resolve" /\ xPos > Len(xEntities)
    /\ xPc' = "done"
    /\ UNCHANGED <<xLines, xState, xEntities, xRels, xPos>>
    /\ UNCHANGED <<xContent, pvars, rvars, mvars, tvars, wvars>>

XNext == XReadLine \/ XStartResolve \/ XResolveStep \/ XFinish

----------------------------------------------------------------------------
(* IFCParser: attribute values *)

\* An attribute as parseAttributes stores it: null, a number, a string;
\* "undefined" is what an index past the end of the array yields
PNull == [k |-> "null", s |-> <<>>, n |-> 0]

PUndefined == [k |-> "undefined", s |-> <<>>, n |-> 0]

PNumV(n) == [k |-> "num", s |-> <<>>, n |-> n]

PStrV(s) == [k |-> "str", s |-> s, n |-> 0]

\* attributes[i], 0-based
PAt(a, i) == IF i >= 0 /\ i < Len(a) THEN a[i + 1] ELSE PUndefined

\* JavaScript truthiness of an attribute value
PTruthy(v) == (v.k = "str" /\ v.s # <<>>) \/ (v.k = "num" /\ v.n # 0)

\* !isNaN(Number(s)) for the decimal texts the files of the model write:
\* digits, or a sign and digits
PIsNumber(s) ==
    \/ Len(s) = 1 /\ IsDigits(s[1])
    \/ Len(s) = 2 /\ s[1] = "-" /\ IsDigits(s[2])

PNumberOf(s) == IF s[1] = "-" THEN -DigitValue(s[2]) ELSE DigitValue(s[1])

\* String(n)
PNumText(n) == IF n < 0 THEN <<"-", DigitRun(-n)>> ELSE <<DigitRun(n)>>

PQuotedBy(s, q) == StartsWith(s, q) /\ EndsWith(s, q)

\* IFCParser.parseAttributeValue of a string
PParseText(s) ==
    IF s = <<"$">> THEN PNull
    ELSE IF PQuotedBy(s, "\"") \/ PQuotedBy(s, "'") THEN PStrV(Slice1(s))
    ELSE IF PIsNumber(s) THEN PNumV(PNumberOf(s))
    ELSE PStrV(s)

\* IFCParser.parseAttributeValue of a value parseAttributes has stored
PParseAttributeValue(v) ==
    CASE v.k = "str" -> PParseText(v.s)
      [] v.k = "num" -> v
      [] OTHER -> PNull

\* name !== null && name !== undefined ? String(name) : ''
PNameStr(name) ==
    CASE name.k = "str" -> name.s
      [] name.k = "num" -> PNumText(name.n)
      [] OTHER -> <<>>

\* The index of the first "(" of the line, 0 when there is none
RECURSIVE PIndexOfParen(_, _)
PIndexOfParen(line, i) ==
    IF i > Len(line) THEN 0
    ELSE IF line[i] = "(" THEN i ELSE PIndexOfParen(line, i + 1)

\* if (currentAttr) attributes.push(parseAttributeValue(currentAttr.trim()))
PPushLast(attributes, currentAttr) ==
    IF currentAttr # <<>> THEN Append(attributes, PParseText(Trim(currentAttr)))
    ELSE attributes

\* The loop of IFCParser.parseAttributes from position i with its locals
RECURSIVE PParseAttributesFrom(_, _, _, _, _, _, _)
PParseAttributesFrom(line, i, depth, currentAttr, inString, escapeNext, attributes) ==
    IF i > Len(line) THEN PPushLast(attributes, currentAttr)
    ELSE CASE escapeNext ->
                PParseAttributesFrom(line, i + 1, depth, Append(currentAttr, line[i]),
                                     inString, FALSE, attributes)
           [] ~escapeNext /\ line[i] = "\\" ->
                PParseAttributesFrom(line, i + 1, depth, currentAttr, inString, TRUE,
                                     attributes)
           [] ~escapeNext /\ line[i] = "\"" ->
                PParseAttributesFrom(line, i + 1, depth, Append(currentAttr, line[i]),
                                     ~inString, FALSE, attributes)
           [] ~escapeNext /\ ~inString /\ line[i] = "(" ->
                PParseAttributesFrom(line, i + 1, depth + 1, Append(currentAttr, line[i]),
                                     inString, FALSE, attributes)
           [] ~escapeNext /\ ~inString /\ line[i] = ")" ->
                IF depth - 1 < 0 THEN PPushLast(attributes, currentAttr)
                ELSE PParseAttributesFrom(line, i + 1, depth - 1,
                                          Append(currentAttr, line[i]), inString, FALSE,
                                          attributes)
           [] ~escapeNext /\ ~inString /\ line[i] = "," /\ depth = 0 ->
                PParseAttributesFrom(line, i + 1, depth, <<>>, inString, FALSE,
                                     Append(attributes, PParseText(Trim(currentAttr))))
           [] OTHER ->
                PParseAttributesFrom(line, i + 1, depth, Append(currentAttr, line[i]),
                                     inString, FALSE, attributes)

\* IFCParser.parseAttributes
PParseAttributes(line) ==
    PParseAttributesFrom(line, PIndexOfParen(line, 1) + 1, 0, <<>>, FALSE, FALSE, <<>>)

\* value.startsWith throws a TypeError when value is a number other than 0
PParseListThrows(v) == v.k = "num" /\ v.n # 0

\* One item of the split: trimmed, dropped when empty or "$", its "#" cut
PListItem(item) ==
    IF Trim(item) = <<>> \/ Trim(item) = <<"$">> THEN <<>>
    ELSE <<XStripHash(Trim(item))>>

RECURSIVE PListItems(_)
PListItems(items) ==
    IF items = <<>> THEN <<>> ELSE PListItem(Head(items)) \o PListItems(Tail(items))

\* IFCParser.parseList; the caller checks PParseListThrows first
PParseList(v) ==
    IF v.k # "str" \/ ~StartsWith(v.s, "(") \/ ~EndsWith(v.s, ")") THEN <<>>
    ELSE PListItems(SplitComma(Slice1(v.s), <<>>))

\* id.startsWith throws a TypeError unless id is a string
PStripThrows(v) == v.k # "str"

\* IFCParser.stripHashFromId; the caller checks PStripThrows first
PStripHash(v) == XStripHash(v.s)

----------------------------------------------------------------------------
(* IFCParser.parseLine *)

\* The type names the files of the model write; all start with "IFC"
PStartsWithIFC(type) ==
    type \in {"IFCWALL", "IFCSLAB", "IFCMATERIAL", "IFCMATERIALLAYER", "IFCMATERIALLAYERSET",
              "IFCMATERIALLAYERSETUSAGE", "IFCMATERIALCONSTITUENTSET",
              "IFCMATERIALCONSTITUENT", "IFCQUANTITYLENGTH", "IFCRELASSOCIATESMATERIAL",
              "IFCRELCONTAINEDINSPATIALSTRUCTURE", "IFCBUILDINGSTOREY",
              "IFCPRODUCTDEFINITIONSHAPE", "IFCSHAPEREPRESENTATION", "IFCSIUNIT",
              "IFCRELAGGREGATES", "IFCBUILDING"}

\* /^#(\d+)/
PIdMatch(line) == Len(line) >= 2 /\ line[1] = "#" /\ IsDigits(line[2])

\* The position after the blanks that start at position i
RECURSIVE PSkipBlanks(_, _)
PSkipBlanks(line, i) ==
    IF i <= Len(line) /\ line[i] = " " THEN PSkipBlanks(line, i + 1) ELSE i

\* /=\s*(\w+)\s*\(/ matched at the "=" of position i: the position of the
\* type name, else 0
PTypeAfter(line, k) ==
    IF k <= Len(line) /\ IsWord(line[k])
       /\ PSkipBlanks(line, k + 1) <= Len(line) /\ line[PSkipBlanks(line, k + 1)] = "("
    THEN k ELSE 0

PTypeAt(line, i) == IF line[i] = "=" THEN PTypeAfter(line, PSkipBlanks(line, i + 1)) ELSE 0

\* The first match of the pattern in the line, from position i on
RECURSIVE PTypeMatchFrom(_, _)
PTypeMatchFrom(line, i) ==
    IF i > Len(line) THEN 0
    ELSE IF PTypeAt(line, i) # 0 THEN PTypeAt(line, i) ELSE PTypeMatchFrom(line, i + 1)

\* The name of an entity from its type and attributes
PNameOf(type, attributes) ==
    IF type = "IFCMATERIAL" THEN PNameStr(PParseAttributeValue(PAt(attributes, 0)))
    ELSE IF PStartsWithIFC(type) /\ Len(attributes) > 2
    THEN PNameStr(PParseAttributeValue(PAt(attributes, 2)))
    ELSE <<>>

PEntityOf(id, type, attributes) ==
    [id |-> id, type |-> type, attributes |-> attributes, name |-> PNameOf(type, attributes)]

\* The parseList call of the switch on the type throws
PSwitchThrows(type, attributes) ==
    CASE type = "IFCMATERIALLAYERSET" -> PParseListThrows(PAt(attributes, 0))
      [] type \in {"IFCRELASSIGNSTOGROUP", "IFCRELCONTAINEDINSPATIALSTRUCTURE"} ->
            PParseListThrows(PAt(attributes, 4))
      [] type = "IFCSHAPEREPRESENTATION" -> PParseListThrows(PAt(attributes, 3))
      [] OTHER -> FALSE

\* state.walls.push(wall) for the two wall types
PWallsWith(walls, entity) ==
    IF entity.type \in {"IFCWALL", "IFCWALLSTANDARDCASE"}
    THEN Append(walls, [id |-> entity.id, name |-> entity.name, materials |-> <<>>])
    ELSE walls

\* The record is stored, then the switch runs
PStore(ents, walls, entity) ==
    [entities |-> MapSet(ents, entity),
     walls |-> PWallsWith(walls, entity),
     threw |-> PSwitchThrows(entity.type, entity.attributes)]

\* IFCParser.parseLine: the new store and wall list, and whether it threw
PParseLine(ents, walls, line) ==
    IF ~PIdMatch(line) \/ PTypeMatchFrom(line, 1) = 0
    THEN [entities |-> ents, walls |-> walls, threw |-> FALSE]
    ELSE PStore(ents, walls,
                PEntityOf(<<line[2]>>, line[PTypeMatchFrom(line, 1)], PParseAttributes(line)))

----------------------------------------------------------------------------
(* IFCParser.processMaterialRelationships *)

\* Number.prototype.toFixed(3) of a whole number, or of NaN
PFixed3(x) == IF x.nan THEN <<"NaN">> ELSE PNumText(x.n) \o <<".", "000">>

\* parseFloat(v || '0.000').toFixed(3)
PThicknessText(v) ==
    CASE v.k = "num" -> PFixed3(Num(v.n))
      [] v.k = "str" /\ v.s # <<>> -> PFixed3(ParseFloat(v.s))
      [] OTHER -> PFixed3(Num(0))

\* material ? material.name || 'Unknown Material' : 'Unknown Material'
PMaterialName(material) == OrElse(material.name, UnknownMaterial)

PFact(name, thickness) == [name |-> name, thickness |-> thickness]

\* The fact of one listed layer; a reference to no layer yields none
PLayerFact(ents, layer) ==
    IF layer.type # "IFCMATERIALLAYER" THEN <<>>
    ELSE <<PFact(PMaterialName(Get(ents, PStripHash(PAt(layer.attributes, 0)))),
                 PThicknessText(PAt(layer.attributes, 1)))>>

RECURSIVE PLayerFacts(_, _)
PLayerFacts(ents, layerRefs) ==
    IF layerRefs = <<>> THEN <<>>
    ELSE PLayerFact(ents, Get(ents, XStripHash(Head(layerRefs))))
           \o PLayerFacts(ents, Tail(layerRefs))

\* stripHashFromId(layer.attributes[0]) throws for one of the listed layers
PLayersThrow(ents, layerRefs) ==
    \E i \in 1..Len(layerRefs) :
        /\ Get(ents, XStripHash(layerRefs[i])).type = "IFCMATERIALLAYER"
        /\ PStripThrows(PAt(Get(ents, XStripHash(layerRefs[i])).attributes, 0))

PLayersOf(ents, layerRefs) ==
    IF PLayersThrow(ents, layerRefs) THEN Threw ELSE Ok(PLayerFacts(ents, layerRefs))

PLayerSetOf(ents, layerSet) ==
    IF layerSet.type # "IFCMATERIALLAYERSET" THEN Ok(<<>>)
    ELSE IF PParseListThrows(PAt(layerSet.attributes, 0)) THEN Threw
    ELSE PLayersOf(ents, PParseList(PAt(layerSet.attributes, 0)))

\* The IFCMATERIALLAYERSETUSAGE branch
PLayerSetUsage(ents, materialEntity) ==
    IF PStripThrows(PAt(materialEntity.attributes, 0)) THEN Threw
    ELSE PLayerSetOf(ents, Get(ents, PStripHash(PAt(materialEntity.attributes, 0))))

\* The width a constituent refers to in attribute 3
PWidthText(width) ==
    IF width.type = "IFCQUANTITYLENGTH" THEN PThicknessText(PAt(width.attributes, 3))
    ELSE <<"0", ".", "000">>

PConstituentThickness(ents, widthRef) ==
    IF PTruthy(widthRef) THEN PWidthText(Get(ents, PStripHash(widthRef)))
    ELSE <<"0", ".", "000">>

\* The fact of one listed constituent
PConstituentFact(ents, constituent) ==
    IF constituent.type # "IFCMATERIALCONSTITUENT" THEN <<>>
    ELSE <<PFact(PMaterialName(Get(ents, PStripHash(PAt(constituent.attributes, 2)))),
                 PConstituentThickness(ents, PAt(constituent.attributes, 3)))>>

RECURSIVE PConstituentFacts(_, _)
PConstituentFacts(ents, constituentRefs) ==
    IF constituentRefs = <<>> THEN <<>>
    ELSE PConstituentFact(ents, Get(ents, XStripHash(Head(constituentRefs))))
           \o PConstituentFacts(ents, Tail(constituentRefs))

\* A stripHashFromId call throws for one of the listed constituents
PConstituentThrows(constituent) ==
    /\ constituent.type = "IFCMATERIALCONSTITUENT"
    /\ \/ PStripThrows(PAt(constituent.attributes, 2))
       \/ PTruthy(PAt(constituent.attributes, 3))
            /\ PStripThrows(PAt(constituent.attributes, 3))

PConstituentsOf(ents, constituentRefs) ==
    IF \E i \in 1..Len(constituentRefs) :
           PConstituentThrows(Get(ents, XStripHash(constituentRefs[i])))
    THEN Threw
    ELSE Ok(PConstituentFacts(ents, constituentRefs))

\* The IFCMATERIALCONSTITUENTSET branch
PConstituentSet(ents, materialEntity) ==
    IF PParseListThrows(PAt(materialEntity.attributes, 0)) THEN Threw
    ELSE PConstituentsOf(ents, PParseList(PAt(materialEntity.attributes, 0)))

\* The IFCMATERIAL branch
PSingleMaterial(materialEntity) ==
    <<PFact(PMaterialName(materialEntity), <<"0", ".", "000">>)>>

\* The material list of a relating material that is in the store
PMaterialsOf(ents, materialEntity) ==
    CASE materialEntity.type = "IFCMATERIALLAYERSETUSAGE" -> PLayerSetUsage(ents, materialEntity)
      [] materialEntity.type = "IFCMATERIALCONSTITUENTSET" ->
            PConstituentSet(ents, materialEntity)
      [] materialEntity.type = "IFCMATERIAL" -> Ok(PSingleMaterial(materialEntity))
      [] OTHER -> Ok(<<>>)

\* relationships.get(elementId) || { materials: [] }
PExisting(rels, elementId) ==
    IF HasKey(rels, elementId) THEN Get(rels, elementId)
    ELSE [id |-> elementId, materials |-> <<>>, spatialStructure |-> NoEnt]

\* The loop of the spatial branch over the related elements
RECURSIVE PAttachStorey(_, _, _)
PAttachStorey(rels, relatedElements, storey) ==
    IF relatedElements = <<>> THEN rels
    ELSE PAttachStorey(
             MapSet(rels, [PExisting(rels, XStripHash(Head(relatedElements)))
                              EXCEPT !.spatialStructure = storey]),
             Tail(relatedElements), storey)

\* The loop of the material branch over the related elements
RECURSIVE PAttachMaterials(_, _, _)
PAttachMaterials(rels, relatedElements, materials) ==
    IF relatedElements = <<>> THEN rels
    ELSE PAttachMaterials(
             MapSet(rels, [PExisting(rels, XStripHash(Head(relatedElements)))
                              EXCEPT !.materials = materials]),
             Tail(relatedElements), materials)

\* The material branch once the material list is computed
PAttachResult(rels, relatedElements, ms) ==
    IF ms.threw THEN [threw |-> TRUE, rels |-> rels]
    ELSE [threw |-> FALSE, rels |-> PAttachMaterials(rels, relatedElements, ms.materials)]

\* A material branch without the test that the relating material is in
\* the store
PMaterialBranchUnchecked(ents, rels, relatedElements, materialEntity) ==
    PAttachResult(rels, relatedElements, PMaterialsOf(ents, materialEntity))

\* The material branch: a relating material that is not in the store is
\* skipped
PMaterialBranch(ents, rels, relatedElements, materialEntity) ==
    IF materialEntity = NoEnt THEN [threw |-> FALSE, rels |-> rels]
    ELSE PAttachResult(rels, relatedElements, PMaterialsOf(ents, materialEntity))

\* parseList(entity.attributes[4]) or stripHashFromId(entity.attributes[5])
\* throws
PRelationThrows(entity) ==
    PParseListThrows(PAt(entity.attributes, 4)) \/ PStripThrows(PAt(entity.attributes, 5))

\* One iteration of the loop of processMaterialRelationships: the new
\* relationships Map, or a TypeError
PProcessEntity(ents, rels, entity) ==
    CASE entity.type = "IFCRELCONTAINEDINSPATIALSTRUCTURE" ->
           IF PRelationThrows(entity) THEN [threw |-> TRUE, rels |-> rels]
           ELSE [threw |-> FALSE,
                 rels |-> PAttachStorey(rels, PParseList(PAt(entity.attributes, 4)),
                                        Get(ents, PStripHash(PAt(entity.attributes, 5))))]
      [] entity.type = "IFCRELASSOCIATESMATERIAL" ->
           IF PRelationThrows(entity) THEN [threw |-> TRUE, rels |-> rels]
           ELSE PMaterialBranch(ents, rels, PParseList(PAt(entity.attributes, 4)),
                                Get(ents, PStripHash(PAt(entity.attributes, 5))))
      [] OTHER -> [threw |-> FALSE, rels |-> rels]

----------------------------------------------------------------------------
(* IFCParser.getElementProperties and the result of IFCParser.parse *)

UnknownStorey == <<"Unknown", " ", "Storey">>

\* The entry of the local shapeRepresentations Map for one record
PShapeRepresentation(ents, entity) ==
    [id |-> entity.id, type |-> entity.type,
     representationType |-> PParseAttributeValue(PAt(entity.attributes, 2)),
     representationIdentifier |-> PParseAttributeValue(PAt(entity.attributes, 1)),
     items |-> [i \in 1..Len(PParseList(PAt(entity.attributes, 3))) |->
                   Get(ents, XStripHash(PParseList(PAt(entity.attributes, 3))[i]))]]

\* parseList(entity.attributes[2]) throws for a product definition shape
PShapesThrow(ents) ==
    \E i \in 1..Len(ents) :
        /\ ents[i].type = "IFCPRODUCTDEFINITIONSHAPE"
        /\ PParseListThrows(PAt(ents[i].attributes, 2))

\* productDefinitionShapes.has(refId)
PIsProductShape(ents, refId) == Get(ents, refId).type = "IFCPRODUCTDEFINITIONSHAPE"

\* representationShapes.map(id => shapeRepresentations.get(id)).filter(Boolean)
RECURSIVE PRepresentations(_, _)
PRepresentations(ents, ids) ==
    IF ids = <<>> THEN <<>>
    ELSE (IF Get(ents, XStripHash(Head(ids))).type = "IFCSHAPEREPRESENTATION"
          THEN <<PShapeRepresentation(ents, Get(ents, XStripHash(Head(ids))))>>
          ELSE <<>>)
         \o PRepresentations(ents, Tail(ids))

\* The geometric representation found through product definition shape refId
PGeometryOf(ents, refId) ==
    [hasGeometry |-> TRUE,
     geometricRepresentation |->
         PRepresentations(ents, PParseList(PAt(Get(ents, refId).attributes, 2)))]

NoGeometry == [hasGeometry |-> FALSE, geometricRepresentation |-> <<>>]

\* attr.includes('(#')
PIncludesListRef(s) == \E i \in 1..(Len(s) - 1) : s[i] = "(" /\ s[i + 1] = "#"

\* The first match of /#\d+/g from position i on that names a product
\* definition shape: its id, else the empty text
RECURSIVE PFirstShapeRef(_, _, _)
PFirstShapeRef(ents, s, i) ==
    IF i + 1 > Len(s) THEN <<>>
    ELSE IF s[i] = "#" /\ IsDigits(s[i + 1]) /\ PIsProductShape(ents, <<s[i + 1]>>)
    THEN <<s[i + 1]>>
    ELSE PFirstShapeRef(ents, s, i + 1)

\* The loop over the attributes of an entity from position i on, with the
\* locals hasGeometry and geometricRepresentation in found
RECURSIVE PGeometryFrom(_, _, _, _)
PGeometryFrom(ents, attributes, i, found) ==
    IF i > Len(attributes) THEN found
    ELSE CASE attributes[i].k = "str" /\ StartsWith(attributes[i].s, "#") ->
                IF PIsProductShape(ents, Tail(attributes[i].s))
                THEN PGeometryOf(ents, Tail(attributes[i].s))
                ELSE PGeometryFrom(ents, attributes, i + 1, found)
           [] attributes[i].k = "str" /\ ~StartsWith(attributes[i].s, "#")
                /\ PIncludesListRef(attributes[i].s) ->
                IF PFirstShapeRef(ents, attributes[i].s, 1) # <<>>
                THEN PGeometryFrom(ents, attributes, i + 1,
                         PGeometryOf(ents, PFirstShapeRef(ents, attributes[i].s, 1)))
                ELSE PGeometryFrom(ents, attributes, i + 1, found)
           [] OTHER -> PGeometryFrom(ents, attributes, i + 1, found)

\* The type test of getElementProperties: starts with IFC and with none of
\* the excluded prefixes (IFCRELATIONSHIP, IFCPROPERTYSET, IFCOWNERHISTORY,
\* IFCPROJECT, IFCSITE, IFCBUILDING, IFCGEOMETRIC, IFCMATERIAL,
\* IFCPRESENTATION, IFCPRODUCTDEFINITION, IFCSHAPE)
PIsElementType(type) ==
    /\ PStartsWithIFC(type)
    /\ type \notin {"IFCMATERIAL", "IFCMATERIALLAYER", "IFCMATERIALLAYERSET",
                    "IFCMATERIALLAYERSETUSAGE", "IFCMATERIALCONSTITUENTSET",
                    "IFCMATERIALCONSTITUENT", "IFCBUILDINGSTOREY", "IFCBUILDING",
                    "IFCPRODUCTDEFINITIONSHAPE", "IFCSHAPEREPRESENTATION"}

\* relationships.get(entity.id) ||
\*     { materials: [], spatialStructure: { name: 'Unknown Storey' } }
PRelationshipOf(rels, id) ==
    IF HasKey(rels, id) THEN Get(rels, id)
    ELSE [id |-> id, materials |-> <<>>,
          spatialStructure |-> [NoEnt EXCEPT !.id = <<>>, !.name = UnknownStorey]]

\* relationship.spatialStructure?.name
PBuildingStorey(relationship) ==
    IF relationship.spatialStructure = NoEnt THEN Undefined
    ELSE relationship.spatialStructure.name

\* A load-bearing flag guessed from the type
PLoadBearingWalls(entity) == entity.type = "IFCWALL"

PIsLoadBearing(entity) == FALSE

PIsExternal(entity) == FALSE

\* The element pushed for an entity that has geometry
PElementOf(entity, relationship, geometry) ==
    [id |-> entity.id, type |-> entity.type, name |-> entity.name,
     materials |-> relationship.materials,
     buildingStorey |-> PBuildingStorey(relationship),
     geometricRepresentation |-> geometry.geometricRepresentation,
     isLoadBearing |-> PIsLoadBearing(entity),
     isExternal |-> PIsExternal(entity)]

PElementIf(entity, relationship, geometry) ==
    IF geometry.hasGeometry THEN <<PElementOf(entity, relationship, geometry)>> ELSE <<>>

\* The third loop of getElementProperties from position i on
RECURSIVE PElementsFrom(_, _, _)
PElementsFrom(ents, rels, i) ==
    IF i > Len(ents) THEN <<>>
    ELSE (IF PIsElementType(ents[i].type)
          THEN PElementIf(ents[i], PRelationshipOf(rels, ents[i].id),
                          PGeometryFrom(ents, ents[i].attributes, 1, NoGeometry))
          ELSE <<>>)
         \o PElementsFrom(ents, rels, i + 1)

\* IFCParser.getElementProperties; the caller checks PShapesThrow first
PGetElementProperties(ents, rels) == PElementsFrom(ents, rels, 1)

\* element.buildingStorey || 'Unknown Storey'
PStoreyKey(element) == OrElse(element.buildingStorey, UnknownStorey)

\* material.name + ` ${material.thickness}mm` (facts carry no layerSetName
\* and no layerName)
PMaterialKey(material) == material.name \o <<" ">> \o material.thickness \o <<"mm">>

\* A count that stays at one
PSetOne(acc, key) == acc @@ (key :> 1)

\* acc.set(key, (acc.get(key) || 0) + 1)
PIncrement(acc, key) ==
    IF key \in DOMAIN acc THEN [acc EXCEPT ![key] = @ + 1] ELSE acc @@ (key :> 1)

\* The reduce over the elements that counts by type, from the Map acc
RECURSIVE PCountTypes(_, _)
PCountTypes(elements, acc) ==
    IF elements = <<>> THEN acc
    ELSE PCountTypes(Tail(elements), PIncrement(acc, Head(elements).type))

\* if (!acc.has(storey)) acc.set(storey, new Map())
PStoreyMap(acc, storey) == IF storey \in DOMAIN acc THEN acc ELSE acc @@ (storey :> <<>>)

\* One step of the reduce that counts by storey and type
PCountInStorey(acc, storey, type) == [acc EXCEPT ![storey] = PIncrement(@, type)]

RECURSIVE PCountStoreys(_, _)
PCountStoreys(elements, acc) ==
    IF elements = <<>> THEN acc
    ELSE PCountStoreys(Tail(elements),
                       PCountInStorey(PStoreyMap(acc, PStoreyKey(Head(elements))),
                                      PStoreyKey(Head(elements)), Head(elements).type))

PElementsByType(elements) == PCountTypes(elements, <<>>)

PElementsByStorey(elements) == PCountStoreys(elements, <<>>)

\* The facts of the elements of type t, as (element, fact) positions
PFactsOfType(elements, t) ==
    UNION {{<<i, j>> : j \in 1..Len(elements[i].materials)} :
               i \in {k \in 1..Len(elements) : elements[k].type = t}}

PMaterialUsage(elements) ==
    [t \in {elements[i].type : i \in {j \in 1..Len(elements) :
                                          Len(elements[j].materials) > 0}} |->
        [key \in {PMaterialKey(elements[f[1]].materials[f[2]]) :
                      f \in PFactsOfType(elements, t)} |->
            Cardinality({f \in PFactsOfType(elements, t) :
                            PMaterialKey(elements[f[1]].materials[f[2]]) = key})]]

\* The IFCAnalysis that parse returns
PAnalysis(elements) ==
    [threw |-> FALSE, elements |-> elements,
     elementsByType |-> PElementsByType(elements),
     elementsByStorey |-> PElementsByStorey(elements),
     materialUsage |-> PMaterialUsage(elements)]

\* What a caller gets when the call throws
PThrown ==
    [threw |-> TRUE, elements |-> <<>>, elementsByType |-> <<>>,
     elementsByStorey |-> <<>>, materialUsage |-> <<>>]

----------------------------------------------------------------------------
(* The texts given to IFCParser.parse *)

\* How many slabs with geometry a text holds besides its wall
MaxSlabs == 2

\* The product definition shape 30 and its shape representation 31
ShapeLines ==
    << Line(30, "IFCPRODUCTDEFINITIONSHAPE", <<Dollar, Dollar, ListOf(<<Ref(31)>>)>>),
       Line(31, "IFCSHAPEREPRESENTATION",
            <<Ref(32), Quoted("Body"), Quoted("SweptSolid"), ListOf(<<Ref(33)>>)>>) >>

\* The shape 30 of element 1: a representation list that names the shape
\* representation 31; an empty list; a list that names no record; a bare
\* number; no shape
ShapeVariants == {"resolved", "empty", "dangling", "number", "none"}

ShapeLinesOf(v) ==
    CASE v = "resolved" -> ShapeLines
      [] v = "empty" -> <<Line(30, "IFCPRODUCTDEFINITIONSHAPE", <<Dollar, Dollar, ListOf(<<>>)>>)>>
      [] v = "dangling" ->
            <<Line(30, "IFCPRODUCTDEFINITIONSHAPE", <<Dollar, Dollar, ListOf(<<Ref(35)>>)>>)>>
      [] v = "number" ->
            <<Line(30, "IFCPRODUCTDEFINITIONSHAPE", <<Dollar, Dollar, Str("7")>>)>>
      [] OTHER -> <<>>

\* Element 1: absent, a wall with geometry, a wall without
PWallVariants == {"none", "geometry", "plain"}

PWallLines(v) ==
    CASE v = "geometry" -> <<Line(1, "IFCWALL", <<Quoted("g"), Dollar, Quoted("W"), Ref(30)>>)>>
      [] v = "plain" -> <<Line(1, "IFCWALL", <<Quoted("g"), Dollar, Quoted("W"), Dollar>>)>>
      [] OTHER -> <<>>

\* A material association of element 1 with the attributes 4 and 5 given
PRelMaterial(related, relating) ==
    Line(2, "IFCRELASSOCIATESMATERIAL",
         <<Quoted("g"), Dollar, Dollar, Dollar, related, relating>>)

\* The material association of element 1: none; a single material; a
\* reference to an id that is not in the text; a record of two attributes;
\* the null marker or a bare number as attribute 5; a bare number as
\* attribute 4; a layer set usage; a constituent set
PMaterialVariants ==
    {"none", "single", "dangling", "short", "null5", "number5", "number4", "layers",
     "constituents"}

PMaterialLines(v) ==
    CASE v = "single" -> <<PRelMaterial(ListOf(<<Ref(1)>>), Ref(5)), MaterialLine>>
      [] v = "dangling" -> <<PRelMaterial(ListOf(<<Ref(1)>>), Ref(9))>>
      [] v = "short" -> <<Line(2, "IFCRELASSOCIATESMATERIAL", <<Quoted("g"), Dollar>>)>>
      [] v = "null5" -> <<PRelMaterial(ListOf(<<Ref(1)>>), Dollar), MaterialLine>>
      [] v = "number5" -> <<PRelMaterial(ListOf(<<Ref(1)>>), Str("5")), MaterialLine>>
      [] v = "number4" -> <<PRelMaterial(Str("7"), Ref(5)), MaterialLine>>
      [] v = "layers" ->
            << PRelMaterial(ListOf(<<Ref(1)>>), Ref(3)),
               Line(3, "IFCMATERIALLAYERSETUSAGE", <<Ref(4)>>),
               Line(4, "IFCMATERIALLAYERSET", <<ListOf(<<Ref(11), Ref(12)>>), Quoted("LS")>>),
               Line(11, "IFCMATERIALLAYER", <<Ref(5), Str("100")>>),
               Line(12, "IFCMATERIALLAYER", <<Ref(5), Str("abc")>>),
               MaterialLine >>
      [] v = "constituents" ->
            << PRelMaterial(ListOf(<<Ref(1)>>), Ref(7)),
               Line(7, "IFCMATERIALCONSTITUENTSET", <<ListOf(<<Ref(21)>>), Quoted("CS")>>),
               Line(21, "IFCMATERIALCONSTITUENT", <<Quoted("A"), Dollar, Ref(5), Ref(20)>>),
               Line(20, "IFCQUANTITYLENGTH",
                    <<Quoted("Width"), Dollar, Dollar, Str("200")>>),
               MaterialLine >>
      [] OTHER -> <<>>

PRelContained(related, relating) ==
    Line(8, "IFCRELCONTAINEDINSPATIALSTRUCTURE",
         <<Quoted("g"), Dollar, Dollar, Dollar, related, relating>>)

StoreyLine == Line(6, "IFCBUILDINGSTOREY", <<Quoted("g"), Dollar, Quoted("L1")>>)

\* The spatial containment of element 1: none; in storey 6; in a storey
\* that is not in the text; the null marker as attribute 5; a bare number
\* as attribute 4
PStoreyVariants == {"none", "storey", "dangling", "null5", "number4"}

PStoreyLines(v) ==
    CASE v = "storey" -> <<PRelContained(ListOf(<<Ref(1)>>), Ref(6)), StoreyLine>>
      [] v = "dangling" -> <<PRelContained(ListOf(<<Ref(1)>>), Ref(6))>>
      [] v = "null5" -> <<PRelContained(ListOf(<<Ref(1)>>), Dollar), StoreyLine>>
      [] v = "number4" -> <<PRelContained(Str("7"), Ref(6)), StoreyLine>>
      [] OTHER -> <<>>

\* An entity line with unbalanced parentheses: its list never closes
MalformedLine ==
    <<"#", "29", "=", "IFCWALL", "(">> \o JoinComma(<<Quoted("g"), Dollar, Quoted("M")>>)
        \o <<",", "(", "#", "30", ";">>

\* Slab k, with geometry and no relationship
SlabLine(k) == Line(25 + k, "IFCSLAB", <<Quoted("g"), Dollar, Quoted("S"), Ref(30)>>)

\* A text: a header line and a blank line, the malformed line if any, then
\* well-formed lines
PFile(wall, material, storey, malformed, slabs) ==
    <<<<"ISO", "-", "10303", "-", "21", ";">>, <<" ">>>>
    \o (IF malformed THEN <<MalformedLine>> ELSE <<>>)
    \o PWallLines(wall) \o PMaterialLines(material) \o PStoreyLines(storey)
    \o [k \in 1..slabs |-> SlabLine(k)] \o ShapeLines

\* The texts built from the variants of element 1
PBaseFiles ==
    {PFile(w, m, st, b, n) : w \in PWallVariants, m \in PMaterialVariants,
                             st \in PStoreyVariants, b \in BOOLEAN, n \in 0..MaxSlabs}

\* The texts a parser may have parsed before it is given X
PPriorFiles ==
    {PFile("geometry", "single", "storey", FALSE, 1),
     PFile("geometry", "layers", "none", TRUE, 0)}

----------------------------------------------------------------------------
(* Length units: IFCElementExtractor.getUnitScale and convertLength, and   *)
(* texts that declare a length unit                                        *)

UnitPrefixes == {"MILLI", "CENTI", "DECI", "none"}

\* The prefix attribute as the file writes it
PrefixText(p) == IF p = "none" THEN Dollar ELSE <<".", p, ".">>

LengthUnit == <<".", "LENGTHUNIT", ".">>

\* The switch of getUnitScale over the prefix attribute
UnitScaleOf(prefix) ==
    CASE prefix = <<".", "MILLI", ".">> -> Rat(1, 1000)
      [] prefix = <<".", "CENTI", ".">> -> Rat(1, 100)
      [] prefix = <<".", "DECI", ".">> -> Rat(1, 10)
      [] OTHER -> Num(1)

\* IFCElementExtractor.getUnitScale: the loop over the entities from i; the
\* first IFCSIUNIT that is a length unit decides
RECURSIVE XGetUnitScaleFrom(_, _)
XGetUnitScaleFrom(ents, i) ==
    IF i > Len(ents) THEN Num(1)
    ELSE IF ents[i].type = "IFCSIUNIT" /\ At(ents[i].attributes, 2) = LengthUnit
         THEN UnitScaleOf(At(ents[i].attributes, 1))
         ELSE XGetUnitScaleFrom(ents, i + 1)

XGetUnitScale(ents) == XGetUnitScaleFrom(ents, 1)

\* The three decimals of toFixed(3), as a digit run of three digits
Thousandths(f) ==
    CASE f = 0 -> "000"
      [] f = 100 -> "100"
      [] f = 200 -> "200"
      [] f = 500 -> "500"
      [] OTHER -> "<decimals>"

\* Number.prototype.toFixed(3) of a non-negative number
Fixed3(x) ==
    IF x.nan THEN <<"NaN">>
    ELSE <<DigitRun((((2000 * x.n) + x.d) \div (2 * x.d)) \div 1000), ".",
           Thousandths((((2000 * x.n) + x.d) \div (2 * x.d)) % 1000)>>

\* IFCElementExtractor.convertLength of a string value
XConvertLength(ents, value) ==
    IF IsNaN(ParseFloat(value)) THEN <<"0", ".", "000">>
    ELSE Fixed3(Mul(ParseFloat(value), XGetUnitScale(ents)))

\* The unit declaration, with the prefix at index 1 and the unit type at
\* index 2, where getUnitScale reads them
UnitLine(p) == Line(40, "IFCSIUNIT", <<Dollar, PrefixText(p), LengthUnit>>)

\* A wall with geometry and a layer set of one layer of thickness 200, in
\* a file that declares its length unit with prefix p
PUnitFile(p) ==
    << UnitLine(p),
       Line(1, "IFCWALL", <<Quoted("g"), Dollar, Quoted("W"), Ref(30)>>),
       PRelMaterial(ListOf(<<Ref(1)>>), Ref(3)),
       Line(3, "IFCMATERIALLAYERSETUSAGE", <<Ref(4)>>),
       Line(4, "IFCMATERIALLAYERSET", <<ListOf(<<Ref(11)>>), Quoted("LS")>>),
       Line(11, "IFCMATERIALLAYER", <<Ref(5), Str("200")>>),
       MaterialLine >> \o ShapeLines

PUnitFiles == {PUnitFile(p) : p \in UnitPrefixes}

\* A line that starts with an id and has no "=": parseLine returns early
UnparsedLine(n) == <<"#", DigitRun(n), " ", "IFCWALL">>

\* Texts in which the id 1 occurs on several lines
PDuplicateFiles ==
    { << Line(1, "IFCWALL", <<Quoted("g"), Dollar, Quoted("W"), Ref(30)>>),
         Line(1, "IFCSLAB", <<Quoted("g"), Dollar, Quoted("S"), Ref(30)>>) >> \o ShapeLines,
      << Line(1, "IFCWALL", <<Quoted("g"), Dollar, Quoted("W")>>),
         MaterialLine,
         Line(1, "IFCWALL", <<Quoted("g"), Dollar, Quoted("V"), Ref(30)>>),
         UnparsedLine(1) >> \o ShapeLines }

\* Texts in which two material associations name element 1
PTwoAssociations(first, second, lines) ==
    << Line(1, "IFCWALL", <<Quoted("g"), Dollar, Quoted("W"), Ref(30)>>), first, second >>
    \o lines \o ShapeLines

PTwoAssociationFiles ==
    { PTwoAssociations(RelMaterialLine(2, 5), RelMaterialLine(12, 7),
                       <<MaterialLine, WoodLine>>),
      PTwoAssociations(RelMaterialLine(12, 7), RelMaterialLine(2, 5),
                       <<MaterialLine, WoodLine>>),
      PTwoAssociations(RelMaterialLine(2, 5), RelMaterialLine(12, 7), <<MaterialLine>>) }

\* Texts in which wall 1 names product definition shape 30, for every
\* shape variant
PShapeFile(v) ==
    <<<<"ISO", "-", "10303", "-", "21", ";">>>> \o PWallLines("geometry") \o ShapeLinesOf(v)

PShapeFiles == {PShapeFile(v) : v \in ShapeVariants}

\* The texts X a parser is given
\* Texts in which the name of wall 1 holds a comma or a parenthesis
PQuotedFiles ==
    { <<<<"ISO", "-", "10303", "-", "21", ";">>,
        Line(1, "IFCWALL", <<Quoted("g"), Dollar, name, Ref(30)>>)>> \o ShapeLines :
          name \in QuotedNames }

\* Texts in which the association and the containment of wall 1 stand
\* before the records they reference, or after them
POrderFiles ==
    { <<<<"ISO", "-", "10303", "-", "21", ";">>, RelMaterialLine(2, 5),
        Line(8, "IFCRELCONTAINEDINSPATIALSTRUCTURE",
             <<Quoted("g"), Dollar, Dollar, Dollar, ListOf(<<Ref(1)>>), Ref(6)>>)>>
        \o PWallLines("geometry")
        \o <<MaterialLine, Line(6, "IFCBUILDINGSTOREY", <<Quoted("g"), Dollar, Quoted("EG")>>)>>
        \o ShapeLines,
      <<<<"ISO", "-", "10303", "-", "21", ";">>>> \o PWallLines("geometry")
        \o <<MaterialLine, Line(6, "IFCBUILDINGSTOREY", <<Quoted("g"), Dollar, Quoted("EG")>>)>>
        \o ShapeLines
        \o <<RelMaterialLine(2, 5),
             Line(8, "IFCRELCONTAINEDINSPATIALSTRUCTURE",
                  <<Quoted("g"), Dollar, Dollar, Dollar, ListOf(<<Ref(1)>>), Ref(6)>>)>> }

\* Texts with the two containments of wall 1
PDanglingStoreyFiles ==
    { <<<<"ISO", "-", "10303", "-", "21", ";">>>> \o TwoContainmentLines(m) : m \in BOOLEAN }

PTwoElementFiles == { <<IsoMarker>> \o TwoElementLines }

PFiles ==
    PBaseFiles \cup PUnitFiles \cup PDuplicateFiles \cup PTwoAssociationFiles \cup PShapeFiles
        \cup PQuotedFiles \cup POrderFiles \cup PDanglingStoreyFiles \cup PTwoElementFiles

----------------------------------------------------------------------------
(* IFCParser: two parsers, step by step.  A fresh parser parses X (call 1). *)
(* A second parser parses some text A (call 2), then X (call 3).           *)

\* The fields the constructor sets
PConstructed == [entities |-> <<>>, walls |-> <<>>, errors |-> <<>>]

\* A reset that keeps the entity store
PResetKeepingEntities(state) == [state EXCEPT !.walls = <<>>, !.errors = <<>>]

\* IFCParser.reset
PReset(state) == [entities |-> <<>>, walls |-> <<>>, errors |-> <<>>]

PInit ==
    /\ XIdle
    /\ RIdle
    /\ MIdle
    /\ TIdle
    /\ WIdle
    /\ pContent \in PFiles
    /\ pPrior = <<>>
    /\ pCall = 0
    /\ pLines = <<>>
    /\ pEntities = PConstructed.entities
    /\ pWalls = PConstructed.walls
    /\ pErrors = PConstructed.errors
    /\ pRels = <<>>
    /\ pPos = 1
    /\ pPc = "ready"
    /\ pResult = PNone
    /\ pFresh = PNone

\* parse(content) is called: reset(), then content.split('\n')
PBegin(content) ==
    /\ \E st \in {PReset([entities |-> pEntities, walls |-> pWalls, errors |-> pErrors])} :
         /\ pEntities' = st.entities
         /\ pWalls' = st.walls
         /\ pErrors' = st.errors
    /\ pLines' = content
    /\ pCall' = pCall + 1
    /\ pPc' = "lines"
    /\ UNCHANGED <<pContent, pRels, pPos, pResult, pFresh>>
    /\ UNCHANGED <<xvars, rvars, mvars, tvars, wvars>>

\* Calls 1 and 3 are given X; call 2 is given X again or another text
PParse ==
    \/ /\ pPc = "ready" /\ pCall = 0
       /\ PBegin(pContent)
       /\ pPrior' = pPrior
    \/ /\ pPc = "ready" /\ pCall = 1
       /\ \E a \in PPriorFiles \cup {pContent} : PBegin(a) /\ pPrior' = a
    \/ /\ pPc \in {"returned", "threw"} /\ pCall = 2
       /\ PBegin(pContent)
       /\ pPrior' = pPrior

\* The call ends, by a return or by a TypeError: its locals are gone, and
\* the caller has the outcome
PEnd(pc, result) ==
    /\ pPc' = pc
    /\ pResult' = result
    /\ pFresh' = IF pCall = 1 THEN result ELSE pFresh
    /\ pLines' = <<>>
    /\ pRels' = <<>>
    /\ pPos' = 1

\* One iteration of the loop over the lines: a blank line is skipped, any
\* other is given to parseLine
PVisitLine ==
    /\ pPc = "lines" /\ pLines # <<>>
    /\ \E r \in {IF Trim(Head(pLines)) = <<>>
                 THEN [entities |-> pEntities, walls |-> pWalls, threw |-> FALSE]
                 ELSE PParseLine(pEntities, pWalls, Head(pLines))} :
         /\ pEntities' = r.entities
         /\ pWalls' = r.walls
         /\ IF r.threw THEN PEnd("threw", PThrown)
            ELSE /\ pLines' = Tail(pLines)
                 /\ UNCHANGED <<pPc, pResult, pFresh, pRels, pPos>>
    /\ UNCHANGED <<pContent, pPrior, pCall, pErrors>>
    /\ UNCHANGED <<xvars, rvars, mvars, tvars, wvars>>

\* processMaterialRelationships is called: const relationships = new Map()
PStartResolve ==
    /\ pPc = "lines" /\ pLines = <<>>
    /\ pPc' = "resolve"
    /\ pRels' = <<>>
    /\ pPos' = 1
    /\ UNCHANGED <<pContent, pPrior, pCall, pLines, pEntities, pWalls, pErrors, pResult,
                   pFresh>>
    /\ UNCHANGED <<xvars, rvars, mvars, tvars, wvars>>

\* processMaterialRelationships: one iteration of the loop over the entities
PResolveStep ==
    /\ pPc = "resolve" /\ pPos <= Len(pEntities)
    /\ \E r \in {PProcessEntity(pEntities, pRels, pEntities[pPos])} :
         IF r.threw THEN PEnd("threw", PThrown)
         ELSE /\ pRels' = r.rels
              /\ pPos' = pPos + 1
              /\ UNCHANGED <<pPc, pResult, pFresh, pLines>>
    /\ UNCHANGED <<pContent, pPrior, pCall, pEntities, pWalls, pErrors>>
    /\ UNCHANGED <<xvars, rvars, mvars, tvars, wvars>>

\* getElementProperties, then the aggregates of the IFCAnalysis
PReturn ==
    /\ pPc = "resolve" /\ pPos > Len(pEntities)
    /\ IF PShapesThrow(pEntities) THEN PEnd("threw", PThrown)
       ELSE PEnd("returned", PAnalysis(PGetElementProperties(pEntities, pRels)))
    /\ UNCHANGED <<pContent, pPrior, pCall, pEntities, pWalls, pErrors>>
    /\ UNCHANGED <<xvars, rvars, mvars, tvars, wvars>>

\* new IFCParser(): the second parser, once call 1 has ended
PNewParser ==
    /\ pPc \in {"returned", "threw"} /\ pCall = 1
    /\ pEntities' = PConstructed.entities
    /\ pWalls' = PConstructed.walls
    /\ pErrors' = PConstructed.errors
    /\ pPc' = "ready"
    /\ UNCHANGED <<pContent, pPrior, pCall, pLines, pRels, pPos, pResult, pFresh>>
    /\ UNCHANGED <<xvars, rvars, mvars, tvars, wvars>>

PNext == PParse \/ PVisitLine \/ PStartResolve \/ PResolveStep \/ PReturn \/ PNewParser

----------------------------------------------------------------------------
(* IFCParser, the variant returning ParseResult: parseLine.  Its           *)
(* parseAttributes, parseAttributeValue, parseList and stripHashFromId     *)
(* repeat those of the IFCAnalysis variant character by character, so the  *)
(* operators above stand for both.                                         *)

\* Map.get with a stored attribute value as the key: only a string can
\* equal a key of the store
RGet(m, v) == IF v.k = "str" THEN Get(m, v.s) ELSE NoEnt

\* typeof thickness === 'number' ? thickness : undefined
RLayerThickness(v) == IF v.k = "num" THEN v ELSE PUndefined

\* The entry the switch of parseLine writes into one of the side Maps
RLayerOf(entity) ==
    [id |-> entity.id, materialId |-> PAt(entity.attributes, 0),
     thickness |-> RLayerThickness(PParseAttributeValue(PAt(entity.attributes, 1))),
     name |-> PParseAttributeValue(PAt(entity.attributes, 3))]

RLayerSetOf(entity) ==
    [id |-> entity.id, layerIds |-> PParseList(PAt(entity.attributes, 0)),
     name |-> PParseAttributeValue(PAt(entity.attributes, 1))]

RUsageOf(entity) == [id |-> entity.id, layerSetId |-> PAt(entity.attributes, 0)]

RAssignOf(entity) ==
    [id |-> entity.id, type |-> entity.type,
     relatedIds |-> PParseList(PAt(entity.attributes, 4)),
     relatingId |-> PAt(entity.attributes, 5)]

RShapeOf(entity) ==
    [id |-> entity.id, type |-> entity.type,
     representationType |-> PParseAttributeValue(PAt(entity.attributes, 2)),
     items |-> PParseList(PAt(entity.attributes, 3))]

\* A wall as parseLine pushes it; getWalls sets the other fields
RWallOf(entity) ==
    [id |-> entity.id, name |-> entity.name, materials |-> <<>>,
     buildingStorey |-> Undefined, isExternal |-> <<>>, isLoadBearing |-> <<>>]

\* The switch of parseLine on the type, for a record that does not throw
RSwitch(state, entity) ==
    CASE entity.type = "IFCWALL" ->
            [state EXCEPT !.walls = Append(@, RWallOf(entity))]
      [] entity.type = "IFCMATERIALLAYER" ->
            [state EXCEPT !.materialLayers = MapSet(@, RLayerOf(entity))]
      [] entity.type = "IFCMATERIALLAYERSET" ->
            [state EXCEPT !.materialLayerSets = MapSet(@, RLayerSetOf(entity))]
      [] entity.type = "IFCMATERIALLAYERSETUSAGE" ->
            [state EXCEPT !.materialLayerSetUsages = MapSet(@, RUsageOf(entity))]
      [] entity.type \in {"IFCRELASSIGNSTOGROUP", "IFCRELCONTAINEDINSPATIALSTRUCTURE"} ->
            [state EXCEPT !.relationshipAssigns = MapSet(@, RAssignOf(entity))]
      [] entity.type = "IFCSHAPEREPRESENTATION" ->
            [state EXCEPT !.shapeRepresentations = MapSet(@, RShapeOf(entity))]
      [] OTHER -> state

\* The record is stored, then the switch runs
RStore(state, entity) ==
    IF PSwitchThrows(entity.type, entity.attributes)
    THEN [state |-> [state EXCEPT !.entities = MapSet(@, entity)], threw |-> TRUE]
    ELSE [state |-> RSwitch([state EXCEPT !.entities = MapSet(@, entity)], entity),
          threw |-> FALSE]

\* IFCParser.parseLine: the new state, and whether it threw
RParseLine(state, line) ==
    IF ~PIdMatch(line) \/ PTypeMatchFrom(line, 1) = 0
    THEN [state |-> state, threw |-> FALSE]
    ELSE RStore(state,
                PEntityOf(<<line[2]>>, line[PTypeMatchFrom(line, 1)], PParseAttributes(line)))

----------------------------------------------------------------------------
(* IFCParser.processRelationships *)

\* An index entry as processRelationships creates it
REntry(id) == [id |-> id, materials |-> <<>>, aggregates |-> <<>>]

RExisting(rels, id) == IF HasKey(rels, id) THEN Get(rels, id) ELSE REntry(id)

Includes(list, x) == \E i \in 1..Len(list) : list[i] = x

\* relationships.materials.push(material) unless the list includes it
RPushMaterial(entry, material) ==
    IF Includes(entry.materials, material) THEN entry
    ELSE [entry EXCEPT !.materials = Append(@, material)]

\* The material id of a relating layer set: attribute 0 of its first
\* layer, when that is an IFCMATERIALLAYER; else the relating reference
RFirstLayerMaterial(ents, layers, relatingMaterial) ==
    IF layers # <<>> /\ Get(ents, layers[1]).type = "IFCMATERIALLAYER"
    THEN PAt(Get(ents, layers[1]).attributes, 0)
    ELSE relatingMaterial

\* materialId for a relating reference
RMaterialId(ents, relatingMaterial) ==
    CASE RGet(ents, relatingMaterial).type = "IFCMATERIALLAYERSET" ->
            RFirstLayerMaterial(ents,
                PParseList(PAt(RGet(ents, relatingMaterial).attributes, 0)),
                relatingMaterial)
      [] RGet(ents, relatingMaterial).type = "IFCMATERIAL" ->
            PStrV(RGet(ents, relatingMaterial).id)
      [] OTHER -> relatingMaterial

\* The body of the loop over elementIds for one element
RAttachMaterial(ents, rels, elementId, relatingMaterial) ==
    IF Get(ents, elementId) # NoEnt /\ RGet(ents, RMaterialId(ents, relatingMaterial)) # NoEnt
    THEN MapSet(rels, RPushMaterial(RExisting(rels, elementId),
                                    RGet(ents, RMaterialId(ents, relatingMaterial))))
    ELSE rels

RECURSIVE RAttachMaterials(_, _, _, _)
RAttachMaterials(ents, rels, elementIds, relatingMaterial) ==
    IF elementIds = <<>> THEN rels
    ELSE RAttachMaterials(ents,
                          RAttachMaterial(ents, rels, Head(elementIds), relatingMaterial),
                          Tail(elementIds), relatingMaterial)

\* parseList throws in the first pass: on the related elements, or on
\* attribute 0 of a relating layer set once there is an element to visit
RMaterialThrows(ents, entity) ==
    /\ PTruthy(PAt(entity.attributes, 4)) /\ PTruthy(PAt(entity.attributes, 5))
    /\ \/ PParseListThrows(PAt(entity.attributes, 4))
       \/ /\ PParseList(PAt(entity.attributes, 4)) # <<>>
          /\ RGet(ents, PAt(entity.attributes, 5)).type = "IFCMATERIALLAYERSET"
          /\ PParseListThrows(PAt(RGet(ents, PAt(entity.attributes, 5)).attributes, 0))

\* First pass of processRelationships: one iteration of the loop
RProcessMaterial(ents, rels, entity) ==
    IF entity.type # "IFCRELASSOCIATESMATERIAL" THEN [threw |-> FALSE, rels |-> rels]
    ELSE IF RMaterialThrows(ents, entity) THEN [threw |-> TRUE, rels |-> rels]
    ELSE IF PTruthy(PAt(entity.attributes, 4)) /\ PTruthy(PAt(entity.attributes, 5))
    THEN [threw |-> FALSE,
          rels |-> RAttachMaterials(ents, rels, PParseList(PAt(entity.attributes, 4)),
                                    PAt(entity.attributes, 5))]
    ELSE [threw |-> FALSE, rels |-> rels]

\* relationships.aggregates.push(parent)
RPushAggregate(entry, parent) == [entry EXCEPT !.aggregates = Append(@, parent)]

RECURSIVE RAttachParent(_, _, _, _)
RAttachParent(ents, rels, childIds, parent) ==
    IF childIds = <<>> THEN rels
    ELSE IF parent # NoEnt /\ Get(ents, Head(childIds)) # NoEnt
    THEN RAttachParent(ents,
                       MapSet(rels, RPushAggregate(RExisting(rels, Head(childIds)), parent)),
                       Tail(childIds), parent)
    ELSE RAttachParent(ents, rels, Tail(childIds), parent)

\* Second pass of processRelationships: one iteration of the loop
RProcessAggregate(ents, rels, entity) ==
    IF entity.type # "IFCRELAGGREGATES" THEN [threw |-> FALSE, rels |-> rels]
    ELSE IF ~(PTruthy(PAt(entity.attributes, 4)) /\ PTruthy(PAt(entity.attributes, 5)))
    THEN [threw |-> FALSE, rels |-> rels]
    ELSE IF PParseListThrows(PAt(entity.attributes, 5)) THEN [threw |-> TRUE, rels |-> rels]
    ELSE [threw |-> FALSE,
          rels |-> RAttachParent(ents, rels, PParseList(PAt(entity.attributes, 5)),
                                 RGet(ents, PAt(entity.attributes, 4)))]

----------------------------------------------------------------------------
(* IFCParser.getWalls and IFCParser.getEntitiesWithGeometry *)

\* walls.find(w => w.id === elementId): the first such wall gets the name
RECURSIVE RSetStorey(_, _, _)
RSetStorey(walls, elementId, name) ==
    IF walls = <<>> THEN <<>>
    ELSE IF Head(walls).id = elementId
    THEN <<[Head(walls) EXCEPT !.buildingStorey = name]>> \o Tail(walls)
    ELSE <<Head(walls)>> \o RSetStorey(Tail(walls), elementId, name)

RECURSIVE RSetStoreys(_, _, _)
RSetStoreys(walls, relatedIds, name) ==
    IF relatedIds = <<>> THEN walls
    ELSE RSetStoreys(RSetStorey(walls, Head(relatedIds), name), Tail(relatedIds), name)

\* One containment of relationshipAssigns whose relatingId is the key of
\* an IFCBUILDINGSTOREY names that storey on its related walls
RStoreyOfAssign(ents, walls, rel) ==
    IF rel.type = "IFCRELCONTAINEDINSPATIALSTRUCTURE"
       /\ RGet(ents, rel.relatingId).type = "IFCBUILDINGSTOREY"
    THEN RSetStoreys(walls, rel.relatedIds, RGet(ents, rel.relatingId).name)
    ELSE walls

\* The first loop of getWalls, from entry i of relationshipAssigns on
RECURSIVE RStoreysFrom(_, _, _)
RStoreysFrom(state, walls, i) ==
    IF i > Len(state.relationshipAssigns) THEN walls
    ELSE RStoreysFrom(state,
                      RStoreyOfAssign(state.entities, walls, state.relationshipAssigns[i]),
                      i + 1)

\* The entries one layer set gives a wall: one per listed layer that is in
\* materialLayers and whose materialId is the key of an entity
RECURSIVE RLayerMaterials(_, _, _)
RLayerMaterials(state, layerSet, layerIds) ==
    IF layerIds = <<>> THEN <<>>
    ELSE IF HasKey(state.materialLayers, Head(layerIds))
            /\ RGet(state.entities, Get(state.materialLayers, Head(layerIds)).materialId)
                   # NoEnt
    THEN << [name |-> RGet(state.entities,
                           Get(state.materialLayers, Head(layerIds)).materialId).name,
             thickness |-> Get(state.materialLayers, Head(layerIds)).thickness,
             layerSetName |-> layerSet.name] >>
         \o RLayerMaterials(state, layerSet, Tail(layerIds))
    ELSE RLayerMaterials(state, layerSet, Tail(layerIds))

\* A key of materialLayerSets is a string
RHasLayerSet(state, v) == v.k = "str" /\ HasKey(state.materialLayerSets, v.s)

\* The loop over materialLayerSetUsages, from entry i on
RECURSIVE RUsageMaterialsFrom(_, _)
RUsageMaterialsFrom(state, i) ==
    IF i > Len(state.materialLayerSetUsages) THEN <<>>
    ELSE IF RHasLayerSet(state, state.materialLayerSetUsages[i].layerSetId)
    THEN RLayerMaterials(state,
             Get(state.materialLayerSets, state.materialLayerSetUsages[i].layerSetId.s),
             Get(state.materialLayerSets,
                 state.materialLayerSetUsages[i].layerSetId.s).layerIds)
         \o RUsageMaterialsFrom(state, i + 1)
    ELSE RUsageMaterialsFrom(state, i + 1)

\* The second loop of getWalls for one wall: getAttribute knows neither
\* 'IsExternal' nor 'LoadBearing', so both flags are false
RWallWithMaterials(state, wall) ==
    IF ~HasKey(state.entities, wall.id) THEN wall
    ELSE [wall EXCEPT !.materials = @ \o RUsageMaterialsFrom(state, 1),
                      !.isExternal = <<FALSE>>,
                      !.isLoadBearing = <<FALSE>>]

RWallsWithMaterials(state, walls) ==
    [i \in 1..Len(walls) |-> RWallWithMaterials(state, walls[i])]

\* IFCParser.getWalls: state.walls after the call, which it returns
RGetWalls(state) == RWallsWithMaterials(state, RStoreysFrom(state, state.walls, 1))

\* representations.some(repId => shapeReps.has(stripHashFromId(repId)))
RHasShapeRep(ents, representations) ==
    \E i \in 1..Len(representations) :
        Get(ents, XStripHash(representations[i])).type = "IFCSHAPEREPRESENTATION"

\* prodDefShapes.has(shapeId)
RIsProdDefShape(ents, shapeId) ==
    /\ Get(ents, shapeId).type = "IFCPRODUCTDEFINITIONSHAPE"
    /\ RHasShapeRep(ents, PParseList(PAt(Get(ents, shapeId).attributes, 2)))

\* The test of attribute 6, and of attribute 7
RRefersToShape(ents, v) ==
    PTruthy(v) /\ v.k = "str" /\ RIsProdDefShape(ents, XStripHash(v.s))

\* The third loop of getEntitiesWithGeometry, from entity i on
RECURSIVE RWithGeometryFrom(_, _)
RWithGeometryFrom(ents, i) ==
    IF i > Len(ents) THEN <<>>
    ELSE IF RRefersToShape(ents, PAt(ents[i].attributes, 6))
            \/ RRefersToShape(ents, PAt(ents[i].attributes, 7))
    THEN <<ents[i]>> \o RWithGeometryFrom(ents, i + 1)
    ELSE RWithGeometryFrom(ents, i + 1)

\* parseList throws on attribute 2 of a product definition shape
RGeometryThrows(ents) ==
    \E i \in 1..Len(ents) :
        /\ ents[i].type = "IFCPRODUCTDEFINITIONSHAPE"
        /\ PParseListThrows(PAt(ents[i].attributes, 2))

\* IFCParser.getEntitiesWithGeometry
RGetEntitiesWithGeometry(ents) == RWithGeometryFrom(ents, 1)

\* The ParseResult
RParseResult(state, errors) ==
    [threw |-> FALSE, projectName |-> Undefined, wallNames |-> <<>>,
     relationships |-> state.relationships, errors |-> errors,
     buildingElements |-> <<>>, buildingStoreys |-> <<>>, walls |-> state.walls]

\* What a caller gets when the call throws
RThrown ==
    [threw |-> TRUE, projectName |-> Undefined, wallNames |-> <<>>,
     relationships |-> <<>>, errors |-> <<>>,
     buildingElements |-> <<>>, buildingStoreys |-> <<>>, walls |-> <<>>]

----------------------------------------------------------------------------
(* Texts for the ParseResult variant.  A reference is written "#5", as the *)
(* format writes it, or as the quoted string '5'.                          *)

QuotedRef(n) == Quoted(DigitRun(n))

\* Element 1, a wall whose attribute 6 refers to the shape 30
RWallLine ==
    Line(1, "IFCWALL",
         <<Quoted("g"), Dollar, Quoted("W"), Dollar, Dollar, Dollar, Ref(30)>>)

RRelMaterial(n, related, relating) ==
    Line(n, "IFCRELASSOCIATESMATERIAL",
         <<Quoted("g"), Dollar, Dollar, Dollar, related, relating>>)

\* The material associations of element 1: none; one, its relating
\* material written "#5" or '5'; two that name different materials; two of
\* which the second names no record; a layer set; a bare number as the
\* related elements
RMaterialVariants == {"none", "hash", "quoted", "two", "twoDangling", "layerset", "number4"}

RMaterialLines(v) ==
    CASE v = "hash" -> <<RRelMaterial(2, ListOf(<<Ref(1)>>), Ref(5)), MaterialLine>>
      [] v = "quoted" -> <<RRelMaterial(2, ListOf(<<Ref(1)>>), QuotedRef(5)), MaterialLine>>
      [] v = "two" ->
            << RRelMaterial(2, ListOf(<<Ref(1)>>), QuotedRef(5)),
               RRelMaterial(12, ListOf(<<Ref(1)>>), QuotedRef(7)),
               MaterialLine, WoodLine >>
      [] v = "twoDangling" ->
            << RRelMaterial(2, ListOf(<<Ref(1)>>), QuotedRef(5)),
               RRelMaterial(12, ListOf(<<Ref(1)>>), QuotedRef(9)),
               MaterialLine >>
      [] v = "layerset" ->
            << RRelMaterial(2, ListOf(<<Ref(1)>>), QuotedRef(4)),
               Line(3, "IFCMATERIALLAYERSETUSAGE", <<QuotedRef(4)>>),
               Line(4, "IFCMATERIALLAYERSET", <<ListOf(<<Ref(11)>>), Quoted("LS")>>),
               Line(11, "IFCMATERIALLAYER", <<QuotedRef(5), Str("200")>>),
               MaterialLine >>
      [] v = "number4" -> <<RRelMaterial(2, Str("7"), QuotedRef(5)), MaterialLine>>
      [] OTHER -> <<>>

RRelAggregates(relating, related) ==
    Line(13, "IFCRELAGGREGATES", <<Quoted("g"), Dollar, Dollar, Dollar, relating, related>>)

BuildingLine == Line(10, "IFCBUILDING", <<Quoted("g"), Dollar, Quoted("B")>>)

\* The aggregation of element 1 under the building 10: none; the parent
\* written "#10" or '10'; a parent that is no record; a child that is no
\* record; a bare number as the related objects
RAggregateVariants == {"none", "hash", "quoted", "danglingParent", "danglingChild", "number5"}

RAggregateLines(v) ==
    CASE v = "hash" -> <<RRelAggregates(Ref(10), ListOf(<<Ref(1)>>)), BuildingLine>>
      [] v = "quoted" -> <<RRelAggregates(QuotedRef(10), ListOf(<<Ref(1)>>)), BuildingLine>>
      [] v = "danglingParent" -> <<RRelAggregates(QuotedRef(9), ListOf(<<Ref(1)>>))>>
      [] v = "danglingChild" ->
            <<RRelAggregates(QuotedRef(10), ListOf(<<Ref(1), Ref(9)>>)), BuildingLine>>
      [] v = "number5" -> <<RRelAggregates(QuotedRef(10), Str("7")), BuildingLine>>
      [] OTHER -> <<>>

\* The containment of element 1 in the storey 6, written "#6" or '6'
RStoreyVariants == {"none", "hash", "quoted"}

RStoreyLines(v) ==
    CASE v = "hash" -> <<PRelContained(ListOf(<<Ref(1)>>), Ref(6)), StoreyLine>>
      [] v = "quoted" -> <<PRelContained(ListOf(<<Ref(1)>>), QuotedRef(6)), StoreyLine>>
      [] OTHER -> <<>>

RFile(material, aggregate, shape, storey) ==
    <<<<"ISO", "-", "10303", "-", "21", ";">>, RWallLine>>
    \o RMaterialLines(material) \o RAggregateLines(aggregate) \o RStoreyLines(storey)
    \o ShapeLinesOf(shape)

RFiles ==
    {RFile(m, a, sh, st) : m \in RMaterialVariants, a \in RAggregateVariants,
                           sh \in ShapeVariants, st \in RStoreyVariants}

----------------------------------------------------------------------------
(* IFCParser, the ParseResult variant: one parse call on a fresh parser,   *)
(* step by step, then a call of getEntitiesWithGeometry                    *)

\* IFCParser.reset
RReset(state) == RConstructed

RInit ==
    /\ XIdle
    /\ PIdle
    /\ MIdle
    /\ TIdle
    /\ WIdle
    /\ rContent \in RFiles
    /\ rLines = <<>>
    /\ rState = RConstructed
    /\ rErrors = <<>>
    /\ rPos = 1
    /\ rPc = "ready"
    /\ rResult = RNone
    /\ rGeometry = <<>>
    /\ rWallCalls = 0

\* parse(content) is called: reset(), then content.split('\n')
RParse ==
    /\ rPc = "ready"
    /\ rState' = RReset(rState)
    /\ rErrors' = <<>>
    /\ rLines' = rContent
    /\ rPc' = "lines"
    /\ UNCHANGED <<rContent, rPos, rResult, rGeometry>>
    /\ UNCHANGED rWallCalls
    /\ UNCHANGED <<xvars, pvars, mvars, tvars, wvars>>

\* One iteration of the loop over the lines: a line that starts with "#"
\* is given to parseLine, any other is skipped
RVisitLine ==
    /\ rPc = "lines" /\ rLines # <<>>
    /\ \E r \in {IF StartsWith(Head(rLines), "#") THEN RParseLine(rState, Head(rLines))
                 ELSE [state |-> rState, threw |-> FALSE]} :
         /\ rState' = r.state
         /\ IF r.threw THEN rPc' = "threw" /\ rResult' = RThrown /\ rLines' = <<>>
            ELSE rLines' = Tail(rLines) /\ UNCHANGED <<rPc, rResult>>
    /\ UNCHANGED <<rContent, rErrors, rPos, rGeometry>>
    /\ UNCHANGED rWallCalls
    /\ UNCHANGED <<xvars, pvars, mvars, tvars, wvars>>

\* processRelationships is called
RStartResolve ==
    /\ rPc = "lines" /\ rLines = <<>>
    /\ rPc' = "materials"
    /\ rPos' = 1
    /\ UNCHANGED <<rContent, rLines, rState, rErrors, rResult, rGeometry>>
    /\ UNCHANGED rWallCalls
    /\ UNCHANGED <<xvars, pvars, mvars, tvars, wvars>>

\* First pass of processRelationships: one iteration
RMaterialStep ==
    /\ rPc = "materials" /\ rPos <= Len(rState.entities)
    /\ \E r \in {RProcessMaterial(rState.entities, rState.relationships,
                                  rState.entities[rPos])} :
         IF r.threw
         THEN rPc' = "threw" /\ rResult' = RThrown /\ UNCHANGED <<rState, rPos>>
         ELSE /\ rState' = [rState EXCEPT !.relationships = r.rels]
              /\ rPos' = rPos + 1
              /\ UNCHANGED <<rPc, rResult>>
    /\ UNCHANGED <<rContent, rLines, rErrors, rGeometry>>
    /\ UNCHANGED rWallCalls
    /\ UNCHANGED <<xvars, pvars, mvars, tvars, wvars>>

\* The first pass is over; the second begins
RStartAggregates ==
    /\ rPc = "materials" /\ rPos > Len(rState.entities)
    /\ rPc' = "aggregates"
    /\ rPos' = 1
    /\ UNCHANGED <<rContent, rLines, rState, rErrors, rResult, rGeometry>>
    /\ UNCHANGED rWallCalls
    /\ UNCHANGED <<xvars, pvars, mvars, tvars, wvars>>

\* Second pass of processRelationships: one iteration
RAggregateStep ==
    /\ rPc = "aggregates" /\ rPos <= Len(rState.entities)
    /\ \E r \in {RProcessAggregate(rState.entities, rState.relationships,
                                   rState.entities[rPos])} :
         IF r.threw
         THEN rPc' = "threw" /\ rResult' = RThrown /\ UNCHANGED <<rState, rPos>>
         ELSE /\ rState' = [rState EXCEPT !.relationships = r.rels]
              /\ rPos' = rPos + 1
              /\ UNCHANGED <<rPc, rResult>>
    /\ UNCHANGED <<rContent, rLines, rErrors, rGeometry>>
    /\ UNCHANGED rWallCalls
    /\ UNCHANGED <<xvars, pvars, mvars, tvars, wvars>>

\* processRelationships returns; parse builds the ParseResult, calling
\* getWalls
RReturn ==
    /\ rPc = "aggregates" /\ rPos > Len(rState.entities)
    /\ \E st \in {[rState EXCEPT !.walls = RGetWalls(rState)]} :
         /\ rState' = st
         /\ rResult' = RParseResult(st, rErrors)
    /\ rPc' = "returned"
    /\ UNCHANGED <<rContent, rLines, rErrors, rPos, rGeometry>>
    /\ UNCHANGED rWallCalls
    /\ UNCHANGED <<xvars, pvars, mvars, tvars, wvars>>

\* The caller asks for the entities with geometry
RGeometryQuery ==
    /\ rPc = "returned"
    /\ IF RGeometryThrows(rState.entities)
       THEN rPc' = "queryThrew" /\ UNCHANGED rGeometry
       ELSE rPc' = "queried" /\ rGeometry' = RGetEntitiesWithGeometry(rState.entities)
    /\ UNCHANGED <<rContent, rLines, rState, rErrors, rPos, rResult>>
    /\ UNCHANGED rWallCalls
    /\ UNCHANGED <<xvars, pvars, mvars, tvars, wvars>>

\* The calls of getWalls a caller makes on one parser after its parse
MaxGetWallsCalls == 2

\* The caller calls getWalls() on the parser whose parse has returned; the
\* array it returns is state.walls, which the ParseResult holds as well
RCallGetWalls ==
    /\ rPc \in {"returned", "queried", "queryThrew"}
    /\ rWallCalls < MaxGetWallsCalls
    /\ rWallCalls' = rWallCalls + 1
    /\ rState' = [rState EXCEPT !.walls = RGetWalls(rState)]
    /\ rResult' = [rResult EXCEPT !.walls = RGetWalls(rState)]
    /\ UNCHANGED <<rContent, rLines, rErrors, rPos, rPc, rGeometry>>
    /\ UNCHANGED <<xvars, pvars, mvars, tvars, wvars>>

RNext ==
    \/ RParse \/ RVisitLine \/ RStartResolve \/ RMaterialStep \/ RStartAggregates
    \/ RAggregateStep \/ RReturn \/ RGeometryQuery \/ RCallGetWalls

----------------------------------------------------------------------------
(* The two correction steps of processMaterialRelationships, applied to    *)
(* the same materials list                                                 *)

MaxFractions == 3

\* Fractions the first passes leave: a thickness over the total thickness,
\* 0, or NaN
RawFractions == {Num(0), Rat(1, 20000), Rat(1, 4), Rat(1, 2), Num(1), Rat(-1, 2), NaN}

RawMaterial(name, fraction) ==
    [name |-> <<name>>, fraction |-> fraction, layerSetName |-> <<"LS">>, count |-> 1]

RawMaterialLists ==
    UNION {{[i \in 1..n |-> RawMaterial(ConstituentNames[i], fs[i])] :
                fs \in [1..n -> RawFractions]} : n \in 0..MaxFractions}

MInit ==
    /\ XIdle
    /\ PIdle
    /\ RIdle
    /\ TIdle
    /\ WIdle
    /\ mRaw \in RawMaterialLists
    /\ mLayers = <<>>
    /\ mConstituents = <<>>
    /\ mDone = {}

\* The layer-set branch reaches its correction step with mRaw
MCorrectLayers ==
    /\ "layers" \notin mDone
    /\ mLayers' = XCorrectLayers(mRaw)
    /\ mDone' = mDone \cup {"layers"}
    /\ UNCHANGED <<mRaw, mConstituents>>
    /\ UNCHANGED <<xvars, pvars, rvars, tvars, wvars>>

\* The constituent-set branch reaches its correction step with mRaw
MCorrectConstituents ==
    /\ "constituents" \notin mDone
    /\ mConstituents' = XCorrectConstituents(mRaw)
    /\ mDone' = mDone \cup {"constituents"}
    /\ UNCHANGED <<mRaw, mLayers>>
    /\ UNCHANGED <<xvars, pvars, rvars, tvars, wvars>>

MNext == MCorrectLayers \/ MCorrectConstituents

----------------------------------------------------------------------------
(* Tokenizer *)

\* The character classes of the regular expressions: \s, \d, [\d-],
\* [\d.-], [A-Za-z_], [A-Za-z0-9_.]
Whitespace == {" ", "\n", "\t", "\r"}

Digits == {"0", "1", "2", "3", "4", "5", "6", "7", "8", "9"}

Letters == {"A", "B", "C", "F", "I", "a", "b", "c", "x", "_"}

NumberStart == Digits \cup {"-"}

NumberPart == Digits \cup {".", "-"}

IdentifierPart == Letters \cup Digits \cup {"."}

\* Tokenizer.isEOF
TIsEOF(input, st) == st.position >= Len(input)

\* Tokenizer.peek; "\\0" stands for the NUL character
TPeek(input, st) == IF TIsEOF(input, st) THEN "\\0" ELSE input[st.position + 1]

\* Tokenizer.advance: the fields after the call (the caller reads the
\* character with TPeek before it)
TAdvance(input, st) ==
    IF TPeek(input, st) = "\n"
    THEN [st EXCEPT !.position = @ + 1, !.line = @ + 1, !.column = 1]
    ELSE [st EXCEPT !.position = @ + 1, !.column = @ + 1]

\* Tokenizer.skipWhitespace
RECURSIVE TSkipWhitespace(_, _)
TSkipWhitespace(input, st) ==
    IF ~TIsEOF(input, st) /\ TPeek(input, st) \in Whitespace
    THEN TSkipWhitespace(input, TAdvance(input, st))
    ELSE st

\* while (!this.isEOF() && <class>.test(this.peek())) value += this.advance()
RECURSIVE TReadWhile(_, _, _, _)
TReadWhile(input, st, class, value) ==
    IF ~TIsEOF(input, st) /\ TPeek(input, st) \in class
    THEN TReadWhile(input, TAdvance(input, st), class, Append(value, TPeek(input, st)))
    ELSE [st |-> st, value |-> value]

Token(type, value, line, column) ==
    [type |-> type, value |-> value, line |-> line, column |-> column]

\* A token made of what a read loop left
TTokenOf(type, r, startColumn) ==
    [st |-> r.st, token |-> Token(type, r.value, r.st.line, startColumn)]

\* Tokenizer.readNumber
TReadNumber(input, st) == TTokenOf("NUMBER", TReadWhile(input, st, NumberPart, <<>>), st.column)

\* Tokenizer.readIdentifier
TReadIdentifier(input, st) ==
    TTokenOf("IDENTIFIER", TReadWhile(input, st, IdentifierPart, <<>>), st.column)

\* The characters that are not a quote
TNoQuote(input) == {input[i] : i \in 1..Len(input)} \ {"'"}

\* The end of readString: the closing quote is skipped, or an error pushed
TCloseString(input, r, startColumn) ==
    IF TPeek(input, r.st) = "'"
    THEN [st |-> TAdvance(input, r.st),
          token |-> Token("STRING", r.value, TAdvance(input, r.st).line, startColumn)]
    ELSE [st |-> [r.st EXCEPT !.errors =
                      Append(@, [line |-> r.st.line, column |-> r.st.column,
                                 message |-> "Unterminated string literal", char |-> ""])],
          token |-> Token("STRING", r.value, r.st.line, startColumn)]

\* Tokenizer.readString
TReadString(input, st) ==
    TCloseString(input, TReadWhile(input, TAdvance(input, st), TNoQuote(input), <<>>),
                 st.column)

SingleCharTokens ==
    [c \in {"#", "=", ";", "(", ")", ",", "$", "*", "."} |->
        CASE c = "#" -> "HASH" [] c = "=" -> "EQUALS" [] c = ";" -> "SEMICOLON"
          [] c = "(" -> "LPAREN" [] c = ")" -> "RPAREN" [] c = "," -> "COMMA"
          [] c = "$" -> "DOLLAR" [] c = "*" -> "ASTERISK" [] OTHER -> "DOT"]

\* A case of the switch without its this.advance()
TSingleCharStay(input, st) ==
    [st |-> st,
     token |-> Token(SingleCharTokens[TPeek(input, st)], <<TPeek(input, st)>>,
                     st.line, st.column)]

\* A case of the switch: this.advance(); return { type, value: char, ... }
TSingleChar(input, st) ==
    [st |-> TAdvance(input, st),
     token |-> Token(SingleCharTokens[TPeek(input, st)], <<TPeek(input, st)>>,
                     TAdvance(input, st).line, st.column)]

\* The default case before its recursive call: the error is pushed and the
\* character skipped
TSkipInvalid(input, st) ==
    TAdvance(input,
             [st EXCEPT !.errors =
                 Append(@, [line |-> st.line, column |-> st.column,
                            message |-> "Unexpected character", char |-> TPeek(input, st)])])

\* Tokenizer.nextToken after skipWhitespace
RECURSIVE TNextTokenAt(_, _)
TNextTokenAt(input, st) ==
    IF TIsEOF(input, st) THEN [st |-> st, token |-> Token("EOF", <<>>, st.line, st.column)]
    ELSE IF TPeek(input, st) \in NumberStart THEN TReadNumber(input, st)
    ELSE IF TPeek(input, st) = "'" THEN TReadString(input, st)
    ELSE IF TPeek(input, st) \in Letters THEN TReadIdentifier(input, st)
    ELSE IF TPeek(input, st) \in DOMAIN SingleCharTokens THEN TSingleChar(input, st)
    ELSE TNextTokenAt(input, TSkipWhitespace(input, TSkipInvalid(input, st)))

\* Tokenizer.nextToken
TNextToken(input, st) == TNextTokenAt(input, TSkipWhitespace(input, st))

\* The inputs: every string of at most MaxInput characters of TChars
MaxInput == 3

TChars == {"A", "1", "'", "\n", " ", "#", "@"}

TInputs == UNION {[1..n -> TChars] : n \in 0..MaxInput}

\* new Tokenizer(input), and tokenize() is called
TInit ==
    /\ XIdle
    /\ PIdle
    /\ RIdle
    /\ MIdle
    /\ WIdle
    /\ tInput \in TInputs
    /\ tState = TConstructed
    /\ tTokens = <<>>
    /\ tPc = "tokenize"

\* One iteration of the do-while loop of tokenize
TTokenizeStep ==
    /\ tPc = "tokenize"
    /\ \E r \in {TNextToken(tInput, tState)} :
         /\ tState' = r.st
         /\ tTokens' = Append(tTokens, r.token)
         /\ tPc' = IF r.token.type = "EOF" THEN "done" ELSE "tokenize"
    /\ UNCHANGED tInput
    /\ UNCHANGED <<xvars, pvars, rvars, mvars, wvars>>

TNext == TTokenizeStep

----------------------------------------------------------------------------
(* IfcParserWorker and the message listener of the worker *)

\* The parse calls made on one IfcParserWorker
MaxRequests == 3

\* The inputs given to parse
WInputs == {"a", "b"}

Pending == [state |-> "pending", type |-> "", of |-> 0, data |-> ""]

\* new IfcParserWorker()
WInit ==
    /\ XIdle
    /\ PIdle
    /\ RIdle
    /\ MIdle
    /\ TIdle
    /\ wRequests = <<>>
    /\ wListeners = <<>>
    /\ wInbox = <<>>
    /\ wRunning = {}
    /\ wOutbox = <<>>
    /\ wSettled = <<>>
    /\ wPc = "open"

\* IfcParserWorker.parse(input): the executor of the promise adds the
\* listener handleMessage of this call and posts the message
WParse ==
    /\ wPc = "open"
    /\ Len(wRequests) < MaxRequests
    /\ \E input \in WInputs : wRequests' = Append(wRequests, input)
    /\ wListeners' = Append(wListeners, Len(wRequests) + 1)
    /\ wInbox' = Append(wInbox, [type |-> "parse", of |-> Len(wRequests) + 1])
    /\ wSettled' = Append(wSettled, Pending)
    /\ UNCHANGED <<wRunning, wOutbox, wPc>>
    /\ UNCHANGED <<xvars, pvars, rvars, mvars, tvars>>

\* The listener of the worker gets the next message and awaits
\* IfcParser.parseAsync(data, options)
WReceive ==
    /\ wPc = "open"
    /\ wInbox # <<>>
    /\ wRunning' = wRunning \cup {Head(wInbox).of}
    /\ wInbox' = Tail(wInbox)
    /\ UNCHANGED <<wRequests, wListeners, wOutbox, wSettled, wPc>>
    /\ UNCHANGED <<xvars, pvars, rvars, mvars, tvars>>

\* The response of the worker to a request: what parseAsync gave for the
\* data of the request, or the error it threw; the message itself names no
\* request, "of" records the request it answers
WResponse(type, k, data) == [type |-> type, of |-> k, data |-> data]

\* parseAsync of one handler settles: the handler posts a 'result' message,
\* or the catch clause an 'error' message
WRespond ==
    /\ wPc = "open"
    /\ \E k \in wRunning :
         /\ wRunning' = wRunning \ {k}
         /\ \E type \in {"result", "error"} :
              wOutbox' = Append(wOutbox, WResponse(type, k, wRequests[k]))
    /\ UNCHANGED <<wRequests, wListeners, wInbox, wSettled, wPc>>
    /\ UNCHANGED <<xvars, pvars, rvars, mvars, tvars>>

\* handleMessage of one parse call on a response: resolve on 'result',
\* reject otherwise
WHandleMessage(response) ==
    [state |-> IF response.type = "result" THEN "fulfilled" ELSE "rejected",
     type |-> response.type, of |-> response.of, data |-> response.data]

\* The main thread dispatches the next 'message' event of this.worker: every
\* listener that is registered runs, settles its promise and removes itself
WDeliver ==
    /\ wPc = "open"
    /\ wOutbox # <<>>
    /\ wSettled' = [k \in 1..Len(wSettled) |->
                       IF \E i \in 1..Len(wListeners) : wListeners[i] = k
                       THEN WHandleMessage(Head(wOutbox)) ELSE wSettled[k]]
    /\ wListeners' = <<>>
    /\ wOutbox' = Tail(wOutbox)
    /\ UNCHANGED <<wRequests, wInbox, wRunning, wPc>>
    /\ UNCHANGED <<xvars, pvars, rvars, mvars, tvars>>

WNext == WParse \/ WReceive \/ WRespond \/ WDeliver

----------------------------------------------------------------------------
(* Specifications *)

\* An IFCElementExtractor constructed on a file
XSpec == XInit /\ [][XNext]_vars

\* IFCParser instances parsing texts
PSpec == PInit /\ [][PNext]_vars

\* An IFCParser of the ParseResult variant parsing a text
RSpec == RInit /\ [][RNext]_vars

\* The correction steps of the two branches on one materials list
MSpec == MInit /\ [][MNext]_vars

\* A Tokenizer tokenizing an input
TSpec == TInit /\ [][TNext]_vars

\* tokenize runs to its end once called: the loop is not suspended
TFairSpec == TSpec /\ WF_vars(TNext)

\* One IfcParserWorker and the parse calls made on it
WSpec == WInit /\ [][WNext]_vars

Init == XInit \/ PInit \/ RInit

Next == XNext \/ PNext \/ RNext

\* Any of the engines
Spec == Init /\ [][Next]_vars

----------------------------------------------------------------------------
(* Properties of IFCElementExtractor.processMaterialRelationships *)

One == Num(1)

\* The record the loop of processMaterialRelationships has just visited
XVisited ==
    IF xPc \in {"resolve", "done"} /\ xPos > 1 /\ xPos - 1 <= Len(xEntities)
    THEN xEntities[xPos - 1] ELSE NoEnt

\* The relating material of a material association
XRelating(entity) == Get(xEntities, XStripHash(At(entity.attributes, 5)))

\* The fractions of the entry the visited association wrote for element 1
XWrittenFractions ==
    LET ms == Get(xRels, Str("1")).materials
    IN  [i \in 1..Len(ms) |-> ms[i].fraction]

XSumsToOne(ms) == Lt(NumAbs(Sub(SumFractions(ms), One)), Epsilon)

XEqualSplit(ms) == \A i \in 1..Len(ms) : ms[i].fraction = Div(One, Num(Len(ms)))

\* C1: once processMaterialRelationships has run, every index entry that
\* holds at least one material fact has fractions that sum to 1 within 1e-4,
\* or that all equal 1/len(materials).
C1_FractionInvariant ==
    xPc = "done" =>
        \A i \in 1..Len(xRels) :
            Len(xRels[i].materials) > 0 =>
                XSumsToOne(xRels[i].materials) \/ XEqualSplit(xRels[i].materials)

\* The thickness of a listed layer as the layer-set rule reads it: a number
\* that is strictly positive counts, anything else is a thickness of 0
XPositiveThickness(layer) ==
    LET t == ParseFloatOrZero(At(layer.attributes, 1))
    IN  IF Gt(t, Num(0)) THEN t ELSE Num(0)

\* The layers of a layer set that are in the store, in listed order
XStoredLayers(layerSet) ==
    LET refs == XParseList(At(layerSet.attributes, 0))
        RECURSIVE From(_)
        From(i) == IF i > Len(refs) THEN <<>>
                   ELSE LET layer == Get(xEntities, XStripHash(refs[i]))
                        IN  (IF layer = NoEnt THEN <<>> ELSE <<layer>>) \o From(i + 1)
    IN  From(1)

\* thickness / T for the strictly positive thicknesses, 0 for the others
XExpectedLayerFractions(layers) ==
    LET ths == [i \in 1..Len(layers) |-> XPositiveThickness(layers[i])]
        T == SumPositive(ths)
    IN  [i \in 1..Len(layers) |-> IF Gt(ths[i], Num(0)) THEN Div(ths[i], T) ELSE Num(0)]

\* The visited record associates a layer set usage whose layer set is in
\* the store and has a layer of strictly positive thickness
XVisitedLayerSet ==
    /\ XVisited.type = "IFCRELASSOCIATESMATERIAL"
    /\ XRelating(XVisited).type = "IFCMATERIALLAYERSETUSAGE"
    /\ Get(xEntities, XStripHash(At(XRelating(XVisited).attributes, 0))).type
         = "IFCMATERIALLAYERSET"

XVisitedLayers ==
    XStoredLayers(Get(xEntities, XStripHash(At(XRelating(XVisited).attributes, 0))))

\* C2: for a layer set usage with at least one layer of strictly positive
\* thickness, the fraction of each layer is thickness / T when its thickness
\* is strictly positive and 0 otherwise, T being the sum of the strictly
\* positive thicknesses.
C2_LayerFractions ==
    (/\ XVisitedLayerSet
     /\ \E i \in 1..Len(XVisitedLayers) : Gt(XPositiveThickness(XVisitedLayers[i]), Num(0)))
    => XWrittenFractions = XExpectedLayerFractions(XVisitedLayers)

\* The visited record associates a constituent set
XVisitedConstituentSet ==
    /\ XVisited.type = "IFCRELASSOCIATESMATERIAL"
    /\ XRelating(XVisited).type = "IFCMATERIALCONSTITUENTSET"

\* The references of the visited constituent set
XVisitedRefs == XParseList(OrElse(At(XRelating(XVisited).attributes, 2), <<>>))

\* The references among them that name a constituent in the store
XVisitedConstituents ==
    {i \in 1..Len(XVisitedRefs) : IsConstituent(Get(xEntities, XStripHash(XVisitedRefs[i])))}

\* None of the four methods yields a weight for the constituent at reference i
XNoWeight(i) ==
    IsZero(XConstituentThickness(xEntities, XVisitedRefs[i],
                                 Get(xEntities, XStripHash(XVisitedRefs[i]))))

\* C3: when none of the four methods yields a weight for any of the n >= 1
\* constituents of a constituent set, every constituent gets fraction 1/n.
C3_EqualSplit ==
    (/\ XVisitedConstituentSet
     /\ XVisitedConstituents # {}
     /\ \A i \in XVisitedConstituents : XNoWeight(i))
    => /\ Len(XWrittenFractions) = Cardinality(XVisitedConstituents)
       /\ \A k \in 1..Len(XWrittenFractions) :
              XWrittenFractions[k] = Div(One, Num(Cardinality(XVisitedConstituents)))

\* C3 witness: a set of three weightless constituents has been resolved to
\* three facts of fraction 1/3.
C3_Witness ==
    /\ XVisitedConstituentSet
    /\ Cardinality(XVisitedConstituents) = 3
    /\ \A i \in XVisitedConstituents : XNoWeight(i)
    /\ XWrittenFractions = <<Rat(1, 3), Rat(1, 3), Rat(1, 3)>>

----------------------------------------------------------------------------
(* Properties of IFCParser.parse *)

\* The text given to the call in progress or just ended
PCurrentContent == IF pCall = 2 THEN pPrior ELSE pContent

PEnded == pPc \in {"returned", "threw"}

\* C4: parse(X) on a parser that has already parsed A ends as parse(X) on
\* a fresh parser does, with the same elements and the same aggregate maps.
C4_ParseDependsOnlyOnInput == (pCall = 3 /\ PEnded) => pResult = pFresh

\* C4 witness: a parser that has parsed another text with elements has
\* returned, for X, the elements a fresh parser returned.
C4_Witness ==
    /\ pCall = 3 /\ pPc = "returned"
    /\ pPrior \in PPriorFiles /\ pPrior # pContent
    /\ Len(pResult.elements) > 0
    /\ pResult = pFresh

PHasMalformedLine == \E i \in 1..Len(PCurrentContent) : PCurrentContent[i] = MalformedLine

\* C5: when the text holds a line with unbalanced parentheses before
\* well-formed lines, parse stores no record for it, records at least one
\* diagnostic and returns no element for it.
C5_MalformedLineSkipped ==
    (pPc = "returned" /\ PHasMalformedLine)
    => /\ ~HasKey(pEntities, <<"29">>)
       /\ Len(pErrors) >= 1
       /\ \A i \in 1..Len(pResult.elements) : pResult.elements[i].id # <<"29">>

\* C6: parse returns a result for every text; it never throws.
C6_ParseNeverThrows == pPc # "threw"

\* The extractor is about to visit a material association whose relating
\* material is not in the store
XVisitingDangling ==
    /\ xPc = "resolve" /\ xPos <= Len(xEntities)
    /\ XIsDanglingMaterialRel(xEntities, xEntities[xPos])

PIsDanglingMaterialRel(ents, entity) ==
    /\ entity.type = "IFCRELASSOCIATESMATERIAL"
    /\ ~PRelationThrows(entity)
    /\ Get(ents, PStripHash(PAt(entity.attributes, 5))) = NoEnt

\* The parser is about to visit such an association
PVisitingDangling ==
    /\ pPc = "resolve" /\ pPos <= Len(pEntities)
    /\ PIsDanglingMaterialRel(pEntities, pEntities[pPos])

\* C7: visiting a material association whose relating material is not in
\* the store raises no error and leaves every index entry as it was, in
\* IFCParser and in IFCElementExtractor.
C7_DanglingMaterialSkipped ==
    [][/\ XVisitingDangling => (xRels' = xRels /\ xPc' = "resolve" /\ xPos' = xPos + 1)
       /\ PVisitingDangling => (pRels' = pRels /\ pPc' = "resolve" /\ pPos' = pPos + 1)]_vars

\* C7 witness: the parser has visited such an association of element 1,
\* which is in the store, and the index holds no entry for element 1.
C7_Witness ==
    /\ pPc = "resolve" /\ pPos > 1
    /\ PIsDanglingMaterialRel(pEntities, pEntities[pPos - 1])
    /\ PParseList(PAt(pEntities[pPos - 1].attributes, 4)) = <<Str("1")>>
    /\ HasKey(pEntities, Str("1"))
    /\ ~HasKey(pRels, Str("1"))

\* A spatial containment record of the store resolves a storey for id
PStoreyResolved(id) ==
    \E i \in 1..Len(pEntities) :
        /\ pEntities[i].type = "IFCRELCONTAINEDINSPATIALSTRUCTURE"
        /\ ~PRelationThrows(pEntities[i])
        /\ Get(pEntities, PStripHash(PAt(pEntities[i].attributes, 5))) # NoEnt
        /\ \E k \in 1..Len(PParseList(PAt(pEntities[i].attributes, 4))) :
               PParseList(PAt(pEntities[i].attributes, 4))[k] = id

\* C8: every returned element has a string as buildingStorey, and it is
\* "Unknown Storey" when no spatial containment resolves a storey for it.
C8_BuildingStoreyString ==
    pPc = "returned" =>
        \A i \in 1..Len(pResult.elements) :
            /\ pResult.elements[i].buildingStorey # Undefined
            /\ ~PStoreyResolved(pResult.elements[i].id)
                 => pResult.elements[i].buildingStorey = UnknownStorey

\* C9: every returned element has a non-empty materials list.
C9_MaterialsNonEmpty ==
    pPc = "returned" =>
        \A i \in 1..Len(pResult.elements) : Len(pResult.elements[i].materials) > 0

\* C10: every returned element has the booleans isLoadBearing and
\* isExternal, both false.
C10_FlagsFalse ==
    pPc = "returned" =>
        \A i \in 1..Len(pResult.elements) :
            /\ pResult.elements[i].isLoadBearing = FALSE
            /\ pResult.elements[i].isExternal = FALSE

\* C10 witness: a parse has returned a wall and a slab.
C10_Witness ==
    /\ pPc = "returned"
    /\ \E i, j \in 1..Len(pResult.elements) :
           pResult.elements[i].type = "IFCWALL" /\ pResult.elements[j].type = "IFCSLAB"

----------------------------------------------------------------------------
(* Properties of the length conversion *)

\* The entity store IFCElementExtractor builds from the unit declaration
UnitStore(p) == <<XEntityOf(XParseLine(UnitLine(p)))>>

\* C11: in a file that declares its length unit with a milli, centi, deci
\* or no prefix, every thickness the parser emits for a layer of raw
\* thickness 200 is 200 times the scale 0.001, 0.01, 0.1 or 1.0, written
\* with three decimals (0.200 for milli).
C11_UnitScaleApplied ==
    \A p \in UnitPrefixes :
        (pPc = "returned" /\ PCurrentContent = PUnitFile(p)) =>
            /\ XConvertLength(UnitStore("MILLI"), Str("200")) = <<"0", ".", "200">>
            /\ \A i \in 1..Len(pResult.elements) :
                   \A k \in 1..Len(pResult.elements[i].materials) :
                       pResult.elements[i].materials[k].thickness
                           = XConvertLength(UnitStore(p), Str("200"))

----------------------------------------------------------------------------
(* Properties of the store pass *)

\* The record IFCParser.parse stores for one line of the text, if any
PRecordOf(line) ==
    IF Trim(line) = <<>> THEN <<>> ELSE PParseLine(<<>>, <<>>, line).entities

\* The section state of IFCElementExtractor after the first i lines
RECURSIVE XStateAfter(_, _)
XStateAfter(content, i) ==
    IF i = 0 THEN [currentLine |-> 0, inDataSection |-> FALSE, inHeader |-> FALSE]
    ELSE XReadOne(XStateAfter(content, i - 1), <<>>, content[i]).state

\* The record IFCElementExtractor stores for line i of the file, if any
XRecordOf(content, i) == XReadOne(XStateAfter(content, i - 1), <<>>, content[i]).entities

\* recs[i] is the last record of its id among the records of the lines
IsLastOfItsId(recs, i) ==
    /\ recs[i] # <<>>
    /\ \A j \in (i + 1)..Len(recs) : recs[j] = <<>> \/ recs[j][1].id # recs[i][1].id

\* The store holds exactly one record of the id of rec, and it is rec
HoldsExactly(store, rec) ==
    /\ Cardinality({k \in 1..Len(store) : store[k].id = rec.id}) = 1
    /\ Get(store, rec.id) = rec

LastWriteWins(store, recs) ==
    \A i \in 1..Len(recs) : IsLastOfItsId(recs, i) => HoldsExactly(store, recs[i][1])

PRecords == [i \in 1..Len(PCurrentContent) |-> PRecordOf(PCurrentContent[i])]

XRecords == [i \in 1..Len(xContent) |-> XRecordOf(xContent, i)]

\* C12: after the store pass, for every id that occurs on parsed lines the
\* store holds exactly one record of that id, the record of the last such
\* line, in IFCParser and in IFCElementExtractor.
C12_LastWriteWins ==
    /\ pPc = "resolve" => LastWriteWins(pEntities, PRecords)
    /\ xPc = "resolve" => LastWriteWins(xEntities, XRecords)

\* C12 witness: the store pass is over for a text in which two parsed
\* lines give different records of one id, and the store holds the later.
C12_Witness ==
    /\ pPc = "resolve"
    /\ \E i, j \in 1..Len(PRecords) :
           /\ i < j /\ PRecords[i] # <<>> /\ IsLastOfItsId(PRecords, j)
           /\ PRecords[i][1].id = PRecords[j][1].id
           /\ PRecords[i][1] # PRecords[j][1]
           /\ Get(pEntities, PRecords[j][1].id) = PRecords[j][1]

----------------------------------------------------------------------------
(* Properties of the material lists of the relationship index *)

\* The greatest member of a non-empty set of indices
LastIndex(S) == CHOOSE i \in S : \A j \in S : j <= i

\* The ids of the records of a store or index
IdsOf(m) == {m[k].id : k \in 1..Len(m)}

\* IFCElementExtractor: the associations of the store that name element e
\* and whose relating material is in the store, e being in the store too
XResolvingFor(ents, e) ==
    {i \in 1..Len(ents) :
        /\ ents[i].type = "IFCRELASSOCIATESMATERIAL"
        /\ ~XThrows(At(ents[i].attributes, 5))
        /\ Includes(XParseList(At(ents[i].attributes, 4)), <<"#">> \o e)
        /\ Get(ents, XStripHash(At(ents[i].attributes, 5))) # NoEnt
        /\ HasKey(ents, e)}

\* The list derived from association i for element e
XDerivedList(ents, i, e) ==
    XWithVolume(XMaterialsOf(ents, Get(ents, XStripHash(At(ents[i].attributes, 5)))).materials,
                ParseFloat(OrElse(XFindElementVolume(ents, Get(ents, e)), Str("0"))))

\* IFCParser (IFCAnalysis variant): the same
PResolvingFor(ents, e) ==
    {i \in 1..Len(ents) :
        /\ ents[i].type = "IFCRELASSOCIATESMATERIAL"
        /\ ~PRelationThrows(ents[i])
        /\ Includes(PParseList(PAt(ents[i].attributes, 4)), e)
        /\ Get(ents, PStripHash(PAt(ents[i].attributes, 5))) # NoEnt}

PDerivedList(ents, i) ==
    PMaterialsOf(ents, Get(ents, PStripHash(PAt(ents[i].attributes, 5)))).materials

\* IFCParser (ParseResult variant): the same; the relating material
\* resolves when processRelationships finds a material entity for it
RResolvingFor(ents, e) ==
    {i \in 1..Len(ents) :
        /\ ents[i].type = "IFCRELASSOCIATESMATERIAL"
        /\ PTruthy(PAt(ents[i].attributes, 4)) /\ PTruthy(PAt(ents[i].attributes, 5))
        /\ ~RMaterialThrows(ents, ents[i])
        /\ Includes(PParseList(PAt(ents[i].attributes, 4)), e)
        /\ RGet(ents, RMaterialId(ents, PAt(ents[i].attributes, 5))) # NoEnt
        /\ HasKey(ents, e)}

RDerivedList(ents, i) == <<RGet(ents, RMaterialId(ents, PAt(ents[i].attributes, 5)))>>

XLastRecordWins ==
    xPc = "done" =>
        \A e \in IdsOf(xEntities) :
            XResolvingFor(xEntities, e) # {} =>
                Get(xRels, e).materials
                    = XDerivedList(xEntities, LastIndex(XResolvingFor(xEntities, e)), e)

PLastRecordWins ==
    (pPc = "resolve" /\ pPos > Len(pEntities)) =>
        \A e \in IdsOf(pEntities) :
            PResolvingFor(pEntities, e) # {} =>
                Get(pRels, e).materials
                    = PDerivedList(pEntities, LastIndex(PResolvingFor(pEntities, e)))

RLastRecordWins ==
    rPc = "returned" =>
        \A e \in IdsOf(rState.entities) :
            RResolvingFor(rState.entities, e) # {} =>
                Get(rResult.relationships, e).materials
                    = RDerivedList(rState.entities,
                                   LastIndex(RResolvingFor(rState.entities, e)))

\* C13: after relationship resolution, the material list of an element
\* that several material associations name is the list derived from the
\* last of them, in processing order, whose relating material resolves;
\* it is never an accumulation of the lists of several records.
C13_LastAssociationWins == XLastRecordWins /\ PLastRecordWins /\ RLastRecordWins

----------------------------------------------------------------------------
(* Properties of the aggregate lists of the relationship index *)

\* The id a reference names: the text of the value without its "#"
NamedId(v) == XStripHash(v.s)

\* The IFCRELAGGREGATES records of the store whose relating reference and
\* related references all name ids of the store, one child at least
RResolvedAggregates(ents) ==
    {i \in 1..Len(ents) :
        /\ ents[i].type = "IFCRELAGGREGATES"
        /\ PAt(ents[i].attributes, 4).k = "str"
        /\ HasKey(ents, NamedId(PAt(ents[i].attributes, 4)))
        /\ PParseList(PAt(ents[i].attributes, 5)) # <<>>
        /\ \A c \in 1..Len(PParseList(PAt(ents[i].attributes, 5))) :
               HasKey(ents, PParseList(PAt(ents[i].attributes, 5))[c])}

\* C14: after IFCParser.parse (ParseResult variant), for every
\* IFCRELAGGREGATES record whose parent and child references all name ids
\* of the entity store, the parent is in the aggregate list of every
\* listed child in the returned relationships map.
C14_ParentInEveryChild ==
    rPc = "returned" =>
        \A i \in RResolvedAggregates(rState.entities) :
            \A c \in 1..Len(PParseList(PAt(rState.entities[i].attributes, 5))) :
                /\ HasKey(rResult.relationships,
                          PParseList(PAt(rState.entities[i].attributes, 5))[c])
                /\ Includes(Get(rResult.relationships,
                                PParseList(PAt(rState.entities[i].attributes, 5))[c]).aggregates,
                            Get(rState.entities, NamedId(PAt(rState.entities[i].attributes, 4))))

----------------------------------------------------------------------------
(* Properties of the geometry-bearing results *)

\* The attribute value references record id: it is "#id", or a list that
\* names id
References(v, id) ==
    v.k = "str" /\ (v.s = <<"#">> \o id \/ Includes(PParseList(v), id))

\* Record id is a product definition shape whose representation list names
\* a shape representation of the store
ShapeWithRepresentation(ents, id) ==
    /\ Get(ents, id).type = "IFCPRODUCTDEFINITIONSHAPE"
    /\ \E k \in 1..Len(PParseList(PAt(Get(ents, id).attributes, 2))) :
           Get(ents, PParseList(PAt(Get(ents, id).attributes, 2))[k]).type
               = "IFCSHAPEREPRESENTATION"

\* One of the attributes of the entity references such a shape
HasResolvedShape(ents, entity) ==
    \E a \in 1..Len(entity.attributes) :
        \E id \in IdsOf(ents) :
            References(entity.attributes[a], id) /\ ShapeWithRepresentation(ents, id)

PGeometryResolved ==
    pPc = "returned" =>
        \A k \in 1..Len(pResult.elements) :
            HasResolvedShape(pEntities, Get(pEntities, pResult.elements[k].id))

RGeometryResolved ==
    rPc = "queried" =>
        \A k \in 1..Len(rGeometry) : HasResolvedShape(rState.entities, rGeometry[k])

\* C15: an element is in the geometry-bearing result (the elements of
\* IFCParser.parse, the list of getEntitiesWithGeometry) only if one of its
\* attributes references an IFCPRODUCTDEFINITIONSHAPE whose representation
\* list names at least one IFCSHAPEREPRESENTATION of the store; an element
\* whose shape has an empty or entirely dangling list is excluded.
C15_GeometryOnlyIfResolved == PGeometryResolved /\ RGeometryResolved

----------------------------------------------------------------------------
(* Properties of the aggregate counts *)

\* The sum of the values of a Map of counts
RECURSIVE SumOfCounts(_)
SumOfCounts(f) ==
    IF DOMAIN f = {} THEN 0
    ELSE f[CHOOSE k \in DOMAIN f : TRUE]
         + SumOfCounts([k \in DOMAIN f \ {CHOOSE k \in DOMAIN f : TRUE} |-> f[k]])

RECURSIVE SumOfSums(_)
SumOfSums(f) ==
    IF DOMAIN f = {} THEN 0
    ELSE SumOfCounts(f[CHOOSE k \in DOMAIN f : TRUE])
         + SumOfSums([k \in DOMAIN f \ {CHOOSE k \in DOMAIN f : TRUE} |-> f[k]])

\* The positions of the elements of type t, and of those in storey st
OfType(elements, t) == {i \in 1..Len(elements) : elements[i].type = t}

InStorey(elements, st) ==
    {i \in 1..Len(elements) : OrElse(elements[i].buildingStorey, UnknownStorey) = st}

TypesOf(elements, S) == {elements[i].type : i \in S}

\* C16: in the result of IFCParser.parse, elementsByType[t] is the number
\* of returned elements of type t, elementsByStorey[s][t] the number of
\* returned elements of type t whose storey is s (an element without a
\* storey counted under "Unknown Storey"); the counts of each map sum to
\* elements.length.
C16_CountsMatchElements ==
    pPc = "returned" =>
        /\ DOMAIN pResult.elementsByType
               = TypesOf(pResult.elements, 1..Len(pResult.elements))
        /\ \A t \in DOMAIN pResult.elementsByType :
               pResult.elementsByType[t] = Cardinality(OfType(pResult.elements, t))
        /\ DOMAIN pResult.elementsByStorey
               = {OrElse(pResult.elements[i].buildingStorey, UnknownStorey) :
                      i \in 1..Len(pResult.elements)}
        /\ \A st \in DOMAIN pResult.elementsByStorey :
               /\ DOMAIN pResult.elementsByStorey[st]
                      = TypesOf(pResult.elements, InStorey(pResult.elements, st))
               /\ \A t \in DOMAIN pResult.elementsByStorey[st] :
                      pResult.elementsByStorey[st][t]
                          = Cardinality(OfType(pResult.elements, t)
                                            \cap InStorey(pResult.elements, st))
        /\ SumOfCounts(pResult.elementsByType) = Len(pResult.elements)
        /\ SumOfSums(pResult.elementsByStorey) = Len(pResult.elements)

\* C16 witness: parse has returned a wall in a named storey and two slabs
\* without a storey.
C16_Witness ==
    /\ pPc = "returned"
    /\ Len(pResult.elements) = 3
    /\ Cardinality(DOMAIN pResult.elementsByType) = 2
    /\ Cardinality(DOMAIN pResult.elementsByStorey) = 2
    /\ UnknownStorey \in DOMAIN pResult.elementsByStorey
    /\ pResult.elementsByStorey[UnknownStorey]["IFCSLAB"] = 2
    /\ C16_CountsMatchElements

----------------------------------------------------------------------------
(* Properties of the volume lookup *)

\* Record q is a base quantity set for the element, by its type and name
IsBaseQuantitySet(element, set) ==
    /\ set.type = "IFCELEMENTQUANTITY"
    /\ [i \in 1..Len(RemoveQuotes(OrElse(At(set.attributes, 2), <<>>))) |->
           LowerAtom(RemoveQuotes(OrElse(At(set.attributes, 2), <<>>))[i])]
         \in {Str(QtoBaseLower(element.type)), Str("basequantities")}

\* The volume quantities of the given name that the set lists
VolumesNamed(ents, set, name) ==
    {k \in 1..Len(ents) :
        /\ Includes(XParseList(OrElse(At(set.attributes, 5), <<>>)), <<"#">> \o ents[k].id)
        /\ ents[k].type = "IFCQUANTITYVOLUME"
        /\ RemoveQuotes(OrElse(At(ents[k].attributes, 0), <<>>)) = Str(name)}

\* The property definitions that name the element
DefinitionsOf(ents, element) ==
    {r \in 1..Len(ents) :
        /\ ents[r].type = "IFCRELDEFINESBYPROPERTIES"
        /\ Includes(XParseList(OrElse(At(ents[r].attributes, 4), <<>>)), <<"#">> \o element.id)}

\* The one set that the definitions of the element name: a base quantity
\* set with one NetVolume and one GrossVolume
HasBothVolumes(ents, element, set) ==
    /\ DefinitionsOf(ents, element) # {}
    /\ \A r \in DefinitionsOf(ents, element) :
           At(ents[r].attributes, 5) = <<"#">> \o set.id
    /\ IsBaseQuantitySet(element, set)
    /\ Cardinality(VolumesNamed(ents, set, "NetVolume")) = 1
    /\ Cardinality(VolumesNamed(ents, set, "GrossVolume")) = 1

\* C17: when the base quantity set matched for an element holds both a
\* NetVolume and a GrossVolume quantity, findElementVolume returns the
\* NetVolume value, whichever of the two the set lists first.
C17_NetVolumePreferred ==
    xPc = "done" =>
        \A e \in 1..Len(xEntities) : \A q \in 1..Len(xEntities) :
            HasBothVolumes(xEntities, xEntities[e], xEntities[q]) =>
                \A k \in VolumesNamed(xEntities, xEntities[q], "NetVolume") :
                    XFindElementVolume(xEntities, xEntities[e])
                        = At(xEntities[k].attributes, 3)

----------------------------------------------------------------------------
(* Properties of the correction steps *)

\* The sum of the fractions of the list, from position i on
RECURSIVE FractionSumFrom(_, _)
FractionSumFrom(ms, i) ==
    IF i > Len(ms) THEN Num(0) ELSE Add(ms[i].fraction, FractionSumFrom(ms, i + 1))

\* The final fractions the rule gives for a list of raw fractions with
\* the sum given
FinalFraction(ms, i, sum) ==
    IF Lt(NumAbs(sum), Rat(1, 10000)) THEN Rat(1, Len(ms))
    ELSE IF Gt(sum, Num(0)) /\ Gt(NumAbs(Sub(sum, Num(1))), Rat(1, 10000))
    THEN Div(ms[i].fraction, sum)
    ELSE ms[i].fraction

FinalFractions(ms) ==
    [i \in 1..Len(ms) |-> FinalFraction(ms, i, FractionSumFrom(ms, 1))]

FractionsOf(ms) == [i \in 1..Len(ms) |-> ms[i].fraction]

\* C18: on the same list of raw fractions the correction steps of the
\* layer-set branch and of the constituent-set branch give the same final
\* fractions: 1/n each when the absolute sum is below 1e-4, every fraction
\* divided by the sum when the sum is positive and differs from 1.0 by more
\* than 1e-4, the raw fractions otherwise.
C18_SameCorrection ==
    mDone = {"layers", "constituents"} =>
        /\ mLayers = mConstituents
        /\ FractionsOf(mLayers) = FinalFractions(mRaw)
        /\ FractionsOf(mConstituents) = FinalFractions(mRaw)

\* C18 witness: both steps have divided the fractions 1/4 and 1/4 by
\* their sum.
C18_Witness ==
    /\ mDone = {"layers", "constituents"}
    /\ FractionsOf(mRaw) = <<Rat(1, 4), Rat(1, 4)>>
    /\ FractionsOf(mLayers) = <<Rat(1, 2), Rat(1, 2)>>
    /\ mLayers = mConstituents

----------------------------------------------------------------------------
(* Properties of the constituent weights *)

\* A usable weight: a number greater than zero
Usable(w) == ~IsNaN(w) /\ Gt(w, Num(0))

\* What each method yields for a constituent, taken on its own
Method1Yield(ents, c) == XMethod1From(ents, StripQuoteEnds(At(c.attributes, 0)), 1, Num(0))

Method2Yield(ents, ref) ==
    XMethod2From(ents, DigitValue(XStripHash(ref)[1]),
                 DigitValue(XStripHash(ref)[1]) - PrecedingWindow)

Method3Yield(ents, c) ==
    IF Truthy(XMethod3(ents, c)) THEN ParseFloat(XMethod3(ents, c)) ELSE Num(0)

Method4Yield(ents, c) == XTryMethod4(ents, c, Num(0))

\* The first usable yield in the order 1, 2, 3, 4; 0 when there is none
FirstUsable(w1, w2, w3, w4) ==
    IF Usable(w1) THEN w1
    ELSE IF Usable(w2) THEN w2
    ELSE IF Usable(w3) THEN w3
    ELSE IF Usable(w4) THEN w4
    ELSE Num(0)

\* The references of the constituent sets of the store that name a
\* constituent
ConstituentRefs(ents) ==
    UNION {{XParseList(OrElse(At(ents[i].attributes, 2), <<>>))[k] :
                k \in {j \in 1..Len(XParseList(OrElse(At(ents[i].attributes, 2), <<>>))) :
                          IsConstituent(Get(ents, XStripHash(
                              XParseList(OrElse(At(ents[i].attributes, 2), <<>>))[j])))}} :
               i \in {j \in 1..Len(ents) : ents[j].type = "IFCMATERIALCONSTITUENTSET"}}

\* C19: for each constituent the four weight methods apply in the order
\* complex quantity by name, preceding length quantity, property set,
\* layer set by material name: the value of method k is used only if the
\* methods before it yielded no usable weight, a method that yields a
\* weight is never overridden, and the weight is 0 when all four fail.
C19_MethodOrder ==
    xPc = "done" =>
        \A ref \in ConstituentRefs(xEntities) :
            XConstituentThickness(xEntities, ref, Get(xEntities, XStripHash(ref)))
                = FirstUsable(Method1Yield(xEntities, Get(xEntities, XStripHash(ref))),
                              Method2Yield(xEntities, ref),
                              Method3Yield(xEntities, Get(xEntities, XStripHash(ref))),
                              Method4Yield(xEntities, Get(xEntities, XStripHash(ref))))

----------------------------------------------------------------------------
(* Properties of attribute-list parsing *)

\* A line "#id=TYPE(...);" of a file
IsEntityLine(line) ==
    /\ Len(line) >= 7
    /\ line[1] = "#" /\ line[3] = "=" /\ line[5] = "("
    /\ line[Len(line)] = ";" /\ line[Len(line) - 1] = ")"

\* The text between the parentheses of an entity line
AttributeText(line) == SubSeq(line, 6, Len(line) - 2)

\* The format's reading of an attribute text from position i, with n
\* commas counted so far: the number of commas that lie outside every
\* single-quoted string and every parenthesis; -1 when a parenthesis or a
\* string is left open or a parenthesis closes that was not opened
RECURSIVE TopLevelCommasFrom(_, _, _, _, _)
TopLevelCommasFrom(text, i, depth, inQuote, n) ==
    IF i > Len(text) THEN (IF depth = 0 /\ ~inQuote THEN n ELSE -1)
    ELSE IF text[i] = "'" THEN TopLevelCommasFrom(text, i + 1, depth, ~inQuote, n)
    ELSE IF inQuote THEN TopLevelCommasFrom(text, i + 1, depth, inQuote, n)
    ELSE IF text[i] = "(" THEN TopLevelCommasFrom(text, i + 1, depth + 1, inQuote, n)
    ELSE IF text[i] = ")"
    THEN (IF depth = 0 THEN -1 ELSE TopLevelCommasFrom(text, i + 1, depth - 1, inQuote, n))
    ELSE IF text[i] = "," /\ depth = 0
    THEN TopLevelCommasFrom(text, i + 1, depth, inQuote, n + 1)
    ELSE TopLevelCommasFrom(text, i + 1, depth, inQuote, n)

TopLevelCommas(text) == TopLevelCommasFrom(text, 1, 0, FALSE, 0)

\* The lines of a file that are well-formed entity lines with one top-level
\* attribute at least, the only line of their id
CountedLines(content) ==
    {l \in 1..Len(content) :
        /\ IsEntityLine(content[l])
        /\ AttributeText(content[l]) # <<>>
        /\ TopLevelCommas(AttributeText(content[l])) >= 0
        /\ \A m \in 1..Len(content) :
               (IsEntityLine(content[m]) /\ content[m][2] = content[l][2]) => m = l}

\* Every record of the store has as many attribute values as its line has
\* top-level attributes
AttributeCountsMatch(content, ents) ==
    \A l \in CountedLines(content) : \A i \in 1..Len(ents) :
        ents[i].id = <<content[l][2]>> =>
            Len(ents[i].attributes)
                = TopLevelCommas(AttributeText(content[l])) + 1

\* C20: a comma or parenthesis inside a single-quoted string neither ends
\* the current attribute nor changes the nesting depth: an entity line
\* with k top-level attributes yields exactly k attribute values.
C20_QuotedTextDoesNotSplit ==
    /\ pCall = 1 => AttributeCountsMatch(pContent, pEntities)
    /\ AttributeCountsMatch(xContent, xEntities)

----------------------------------------------------------------------------
(* Properties of the order of the two passes *)

\* The records that relationship resolution processes
IsRelationship(e) ==
    e.type \in {"IFCRELASSOCIATESMATERIAL", "IFCRELCONTAINEDINSPATIALSTRUCTURE"}

IsNoRelationship(e) == ~IsRelationship(e)

\* The store with its relationship records moved before all other records,
\* and after them
RelationshipsFirst(ents) == SelectSeq(ents, IsRelationship) \o SelectSeq(ents, IsNoRelationship)

RelationshipsLast(ents) == SelectSeq(ents, IsNoRelationship) \o SelectSeq(ents, IsRelationship)

\* The relationship pass of each engine over a whole store, from record i
RECURSIVE XResolveFrom(_, _, _)
XResolveFrom(ents, rels, i) ==
    IF i > Len(ents) THEN [threw |-> FALSE, rels |-> rels]
    ELSE IF XProcessEntity(ents, rels, ents[i]).threw THEN [threw |-> TRUE, rels |-> <<>>]
    ELSE XResolveFrom(ents, XProcessEntity(ents, rels, ents[i]).rels, i + 1)

RECURSIVE PResolveFrom(_, _, _)
PResolveFrom(ents, rels, i) ==
    IF i > Len(ents) THEN [threw |-> FALSE, rels |-> rels]
    ELSE IF PProcessEntity(ents, rels, ents[i]).threw THEN [threw |-> TRUE, rels |-> <<>>]
    ELSE PResolveFrom(ents, PProcessEntity(ents, rels, ents[i]).rels, i + 1)

\* The outcome of the pass that has ended is the outcome for the same
\* records with the relationship records placed first, and placed last
SameIndexInEitherOrder ==
    /\ xPc = "done" =>
          /\ XResolveFrom(RelationshipsFirst(xEntities), <<>>, 1)
                 = [threw |-> FALSE, rels |-> xRels]
          /\ XResolveFrom(RelationshipsLast(xEntities), <<>>, 1)
                 = [threw |-> FALSE, rels |-> xRels]
    /\ xPc = "threw" =>
          /\ XResolveFrom(RelationshipsFirst(xEntities), <<>>, 1).threw
          /\ XResolveFrom(RelationshipsLast(xEntities), <<>>, 1).threw
    /\ (pPc = "resolve" /\ pPos > Len(pEntities)) =>
          /\ PResolveFrom(RelationshipsFirst(pEntities), <<>>, 1)
                 = [threw |-> FALSE, rels |-> pRels]
          /\ PResolveFrom(RelationshipsLast(pEntities), <<>>, 1)
                 = [threw |-> FALSE, rels |-> pRels]

\* Resolution begins when no line is left to read, and the store does not
\* change while it runs
ResolveAfterStore ==
    /\ (xPc # "resolve" /\ xPc' = "resolve") => xLines = <<>>
    /\ xPc = "resolve" => (xEntities' = xEntities /\ xLines' = <<>>)
    /\ (pPc # "resolve" /\ pPc' = "resolve") => pLines = <<>>
    /\ pPc = "resolve" => (pEntities' = pEntities /\ pLines' = <<>>)

\* C21: relationship resolution starts only after every line of the input
\* has been processed into the entity store, so a relationship record that
\* stands before the records it references produces the same index entries
\* as the same record placed after them.
C21_ResolveAfterStoreComplete == [][ResolveAfterStore]_vars /\ []SameIndexInEitherOrder

\* A relationship record of the store at a position before a record it
\* references
StandsBeforeTarget(ents, i) ==
    /\ IsRelationship(ents[i])
    /\ \E j \in (i + 1)..Len(ents) : <<"#">> \o ents[j].id = ents[i].attributes[6]

\* C21 witness: the extractor has finished on a file whose association and
\* containment records precede the wall, the material and the storey, and
\* wall 1 has its material and its storey.
C21_Witness ==
    /\ xPc = "done"
    /\ \E i, j \in 1..Len(xEntities) :
           /\ i # j
           /\ StandsBeforeTarget(xEntities, i) /\ StandsBeforeTarget(xEntities, j)
    /\ HasKey(xRels, Str("1"))
    /\ Len(Get(xRels, Str("1")).materials) = 1
    /\ Get(xRels, Str("1")).spatialStructure = Get(xEntities, Str("6"))
    /\ SameIndexInEitherOrder

----------------------------------------------------------------------------
(* Properties of a containment whose structure is not in the store *)

\* The record the pass of the extractor is about to process is a
\* containment whose relating structure names no record of the store
XAtDanglingContainment ==
    /\ xPc = "resolve" /\ xPos <= Len(xEntities)
    /\ xEntities[xPos].type = "IFCRELCONTAINEDINSPATIALSTRUCTURE"
    /\ ~XThrows(At(xEntities[xPos].attributes, 5))
    /\ ~HasKey(xEntities, XStripHash(At(xEntities[xPos].attributes, 5)))

PAtDanglingContainment ==
    /\ pPc = "resolve" /\ pPos <= Len(pEntities)
    /\ pEntities[pPos].type = "IFCRELCONTAINEDINSPATIALSTRUCTURE"
    /\ ~PRelationThrows(pEntities[pPos])
    /\ ~HasKey(pEntities, PStripHash(PAt(pEntities[pPos].attributes, 5)))

DanglingContainmentIgnored ==
    /\ XAtDanglingContainment => xRels' = xRels
    /\ PAtDanglingContainment => pRels' = pRels

\* C22: processing a spatial-containment record whose relating structure
\* names an id absent from the store leaves the index entries of its
\* related elements unchanged; a storey attached by an earlier containment
\* record is still attached afterwards.
C22_DanglingStoreyIgnored == [][DanglingContainmentIgnored]_vars

----------------------------------------------------------------------------
(* Properties of the Tokenizer after an unterminated string literal *)

\* Tokenizer.tokenize run to its end on an input: the tokens it returns
RECURSIVE TTokenizeFrom(_, _, _)
TTokenizeFrom(input, st, tokens) ==
    IF tokens /= <<>> /\ tokens[Len(tokens)].type = "EOF" THEN tokens
    ELSE TTokenizeFrom(input, TNextToken(input, st).st,
                       Append(tokens, TNextToken(input, st).token))

TTokenize(input) == TTokenizeFrom(input, TConstructed, <<>>)

\* The index of the first line break of an input, 0 if it has none
RECURSIVE FirstBreakFrom(_, _)
FirstBreakFrom(input, i) ==
    IF i > Len(input) THEN 0
    ELSE IF input[i] = "\n" THEN i
    ELSE FirstBreakFrom(input, i + 1)

FirstLine(input) == SubSeq(input, 1, FirstBreakFrom(input, 1) - 1)

AfterFirstLine(input) == SubSeq(input, FirstBreakFrom(input, 1) + 1, Len(input))

\* A line holding a string literal that is not closed on the line: the
\* number of its quotes is odd
UnterminatedOnLine(line) ==
    Cardinality({i \in 1..Len(line) : line[i] = "'"}) % 2 = 1

\* What a token is, without where it stands
TypeAndValue(tokens) ==
    [i \in 1..Len(tokens) |-> [type |-> tokens[i].type, value |-> tokens[i].value]]

\* The last n tokens
LastTokens(tokens, n) == SubSeq(tokens, Len(tokens) - n + 1, Len(tokens))

\* The tokenized input has a first line with an unterminated literal and
\* lines after it
FaultyFirstLine ==
    /\ tPc = "done"
    /\ FirstBreakFrom(tInput, 1) > 0
    /\ UnterminatedOnLine(FirstLine(tInput))

\* C23: when the first line of the input holds an unterminated string
\* literal, the Tokenizer has recorded an error and the tokens of the lines
\* after it are the tokens these lines give when the faulty line is absent
C23_ResumeAtNextLine ==
    FaultyFirstLine =>
        /\ tState.errors /= <<>>
        /\ Len(tTokens) >= Len(TTokenize(AfterFirstLine(tInput)))
        /\ TypeAndValue(LastTokens(tTokens, Len(TTokenize(AfterFirstLine(tInput)))))
             = TypeAndValue(TTokenize(AfterFirstLine(tInput)))

----------------------------------------------------------------------------
(* Properties of the progress of the Tokenizer *)

\* A call of nextToken on an input that is not exhausted moves the position
\* forward
NextTokenAdvances ==
    (tPc = "tokenize" /\ ~TIsEOF(tInput, tState)) =>
        tState'.position >= tState.position + 1

\* The positions of the EOF tokens among the tokens
EOFTokens(tokens) == {i \in 1..Len(tokens) : tokens[i].type = "EOF"}

\* While tokenize runs no EOF token has been pushed; when it has returned
\* the only EOF token is the last token
OneEOFLast ==
    /\ tPc = "tokenize" => EOFTokens(tTokens) = {}
    /\ tPc = "done" => EOFTokens(tTokens) = {Len(tTokens)} /\ tTokens /= <<>>

\* C30: tokenize terminates on every input, every call of nextToken on an
\* input that is not exhausted advances the position by at least one, and
\* the returned tokens hold exactly one EOF token, which is the last
C30_TokenizeTerminates ==
    /\ [][NextTokenAdvances]_vars
    /\ []OneEOFLast
    /\ <>(tPc = "done")

\* tokenize has returned after skipping an invalid character, reading a
\* literal left open, and pushing tokens before the EOF token
C30_Witness ==
    /\ tPc = "done"
    /\ Len(tTokens) >= 3
    /\ \E i \in 1..Len(tState.errors) : tState.errors[i].message = "Unexpected character"
    /\ \E i \in 1..Len(tState.errors) : tState.errors[i].message = "Unterminated string literal"

----------------------------------------------------------------------------
(* Properties of the sections of the file *)

\* Line k of the content stands after a DATA; line with no ENDSEC; line
\* between the two
InDataSection(content, k) ==
    \E i \in 1..(k - 1) :
        /\ Trim(content[i]) = DataMarker
        /\ \A j \in (i + 1)..(k - 1) : Trim(content[j]) /= EndsecMarker

\* The lines of the content that parseLine accepts, among the first n
EntityLines(content, n) == {k \in 1..n : XParseLine(Trim(content[k])).ok}

\* The ids of the lines
LineIds(content, ks) == {<<Trim(content[k])[2]>> : k \in ks}

\* The number of lines parseIFCFile has read
XLinesRead == Len(xContent) - Len(xLines)

\* C25: the extractor holds an entity exactly for the lines read so far that
\* stand after a DATA; line and before the next ENDSEC; line; an entity
\* line of the header, before DATA; or after ENDSEC; is not stored, and
\* marker lines and blank lines are passed over
C25_OnlyDataSectionStored ==
    xPc = "read" =>
        IdsOf(xEntities) =
            LineIds(xContent,
                    {k \in EntityLines(xContent, XLinesRead) : InDataSection(xContent, k)})

\* All lines of a file are read that has entity lines in the header, before
\* DATA; and after ENDSEC;, a blank line, and lines in the data section
C25_Witness ==
    /\ xPc = "read" /\ xLines = <<>>
    /\ \E k \in EntityLines(xContent, XLinesRead) :
         InDataSection(xContent, k) /\ <<Trim(xContent[k])[2]>> \in IdsOf(xEntities)
    /\ \E k \in EntityLines(xContent, XLinesRead) :
         /\ ~InDataSection(xContent, k)
         /\ \E i \in 1..(k - 1) : Trim(xContent[i]) = HeaderMarker
         /\ \A i \in 1..(k - 1) : Trim(xContent[i]) /= EndsecMarker
    /\ \E k \in EntityLines(xContent, XLinesRead) :
         /\ ~InDataSection(xContent, k)
         /\ \E i \in 1..(k - 1) : Trim(xContent[i]) = DataMarker
    /\ \E k \in 1..Len(xContent) : Trim(xContent[k]) = <<>>

----------------------------------------------------------------------------
(* Properties of the two slices of an index entry *)

\* The two slices of the entry of an element; an element without an entry
\* has no materials and no structure
MaterialsSlice(rels, id) == IF HasKey(rels, id) THEN Get(rels, id).materials ELSE <<>>

StructureSlice(rels, id) == IF HasKey(rels, id) THEN Get(rels, id).spatialStructure ELSE NoEnt

\* The ids a list of references names
ListedIds(relatedElements) ==
    {XStripHash(relatedElements[i]) : i \in 1..Len(relatedElements)}

\* The entries of the elements that are not listed are the same in both
\* indexes
UnlistedUntouched(before, after, listed) ==
    /\ IdsOf(after) \ listed = IdsOf(before) \ listed
    /\ \A id \in IdsOf(before) \ listed : Get(after, id) = Get(before, id)

\* The step from one index to the next changes materials slices only, or
\* structure slices only
OnlyMaterialsChange(before, after) ==
    \A id \in IdsOf(before) \cup IdsOf(after) :
        StructureSlice(after, id) = StructureSlice(before, id)

OnlyStructureChanges(before, after) ==
    \A id \in IdsOf(before) \cup IdsOf(after) :
        MaterialsSlice(after, id) = MaterialsSlice(before, id)

\* What a step of the pass over a record of the type given must keep
SliceKept(type, before, after, listed) ==
    /\ type = "IFCRELASSOCIATESMATERIAL" =>
           OnlyMaterialsChange(before, after) /\ UnlistedUntouched(before, after, listed)
    /\ type = "IFCRELCONTAINEDINSPATIALSTRUCTURE" =>
           OnlyStructureChanges(before, after) /\ UnlistedUntouched(before, after, listed)

XSliceKept ==
    (xPc = "resolve" /\ xPos <= Len(xEntities) /\ xPc' = "resolve") =>
        SliceKept(xEntities[xPos].type, xRels, xRels',
                  ListedIds(XParseList(At(xEntities[xPos].attributes, 4))))

PSliceKept ==
    (pPc = "resolve" /\ pPos <= Len(pEntities) /\ pPc' = "resolve") =>
        SliceKept(pEntities[pPos].type, pRels, pRels',
                  ListedIds(PParseList(PAt(pEntities[pPos].attributes, 4))))

\* C24: processing a material-association record changes only the materials
\* slice of the entries of its related elements and keeps their
\* spatialStructure; processing a containment record changes only the
\* spatialStructure slice and keeps the materials; the entries of elements
\* the record does not list are unchanged
C24_SlicesIndependent == [][XSliceKept /\ PSliceKept]_vars

\* The extractor has resolved a file in which wall 1 got its material before
\* wall 21 got its storey, wall 21 its material after its storey, and both
\* walls a storey last: both entries hold both slices
C24_Witness ==
    /\ xPc = "done"
    /\ xContent \in XTwoElementFiles
    /\ \A id \in {Str("1"), Str("21")} :
         /\ HasKey(xRels, id)
         /\ MaterialsSlice(xRels, id) /= <<>>
         /\ StructureSlice(xRels, id) = Get(xEntities, Str("6"))

----------------------------------------------------------------------------
(* Properties of the weights of the constituents *)

\* The references a constituent set lists
ListedConstituents(materialEntity) ==
    XParseList(OrElse(At(materialEntity.attributes, 2), <<>>))

\* The facts of the second pass, each with the fraction of the weight the
\* first pass resolved for the same constituent: the j-th fact is the fact
\* of the j-th reference that names a constituent, and so is the j-th weight
OwnWeightFacts(facts, ths) ==
    [j \in 1..Len(facts) |->
        [facts[j] EXCEPT !.fraction = XFraction(ths[j], SumPositive(ths))]]

\* The fractions of the material list of a constituent set when each
\* constituent is given its own weight
OwnWeightFractions(ents, materialEntity) ==
    FractionsOf(
        XCorrectConstituents(
            OwnWeightFacts(
                XConstituentFactsFrom(ents, materialEntity, ListedConstituents(materialEntity),
                    XConstituentThicknesses(ents, ListedConstituents(materialEntity)),
                    SumPositive(XConstituentThicknesses(ents, ListedConstituents(materialEntity))),
                    1),
                XConstituentThicknesses(ents, ListedConstituents(materialEntity)))))

\* The extractor has resolved a file whose wall 1 has the constituent set 7
\* as its material
ConstituentSetResolved ==
    /\ xPc = "done"
    /\ HasKey(xEntities, Str("7"))
    /\ Get(xEntities, Str("7")).type = "IFCMATERIALCONSTITUENTSET"
    /\ HasKey(xRels, Str("1"))

\* C26: in the constituent-set branch the fraction of each constituent is
\* computed from the weight resolved for that same constituent, also when
\* the set lists references that are dangling or name no constituent
C26_OwnWeight ==
    ConstituentSetResolved =>
        FractionsOf(Get(xRels, Str("1")).materials)
            = OwnWeightFractions(xEntities, Get(xEntities, Str("7")))

----------------------------------------------------------------------------
(* Properties of repeated getWalls calls *)

\* A call of getWalls by the caller leaves the walls as the call before it
\* left them
GetWallsRepeats ==
    rWallCalls' = rWallCalls + 1 =>
        /\ rState'.walls = rState.walls
        /\ rResult'.walls = rResult.walls

\* C27: after one parse, getWalls is idempotent: a call returns the walls
\* the call before it returned and appends no materials to a wall that an
\* earlier call has populated
C27_GetWallsIdempotent == [][GetWallsRepeats]_vars

----------------------------------------------------------------------------
(* Properties of the records findElementVolume uses *)

\* The related list of the record holds a reference to exactly the id
ListsExactly(entity, id) ==
    \E i \in 1..Len(XParseList(At(entity.attributes, 4))) :
        XStripHash(XParseList(At(entity.attributes, 4))[i]) = id

\* The store without the IFCRELDEFINESBYPROPERTIES records that do not
\* list the id
WithoutForeignDefinitions(ents, id) ==
    SelectSeq(ents, LAMBDA r : r.type /= "IFCRELDEFINESBYPROPERTIES" \/ ListsExactly(r, id))

\* The volume of the element from the records that list exactly its id
OwnVolume(ents, element) ==
    ParseFloat(OrElse(XFindElementVolume(WithoutForeignDefinitions(ents, element.id), element),
                      Str("0")))

\* The materials of the entry carry the share of the volume given
VolumesFrom(materials, volume) ==
    \A i \in 1..Len(materials) : materials[i].volume = Mul(materials[i].fraction, volume)

\* C29: the volume findElementVolume gives for an element comes only from
\* IFCRELDEFINESBYPROPERTIES records whose related list holds a reference
\* to exactly the id of the element; a record that lists an id of which
\* the element's id is a part does not contribute
C29_ExactIdOnly ==
    xPc = "done" =>
        \A k \in 1..Len(xRels) :
            HasKey(xEntities, xRels[k].id) =>
                VolumesFrom(xRels[k].materials,
                            OwnVolume(xEntities, Get(xEntities, xRels[k].id)))

----------------------------------------------------------------------------
(* Properties of the parse calls on one IfcParserWorker *)

\* C28: the promise of each parse call on an IfcParserWorker settles with
\* the response of the worker to the request of that call, never with the
\* response to another request, also when two requests are outstanding
C28_OwnResponse ==
    \A k \in 1..Len(wSettled) : wSettled[k].state /= "pending" => wSettled[k].of = k
====
